---- MODULE Spec2Model ----
(***************************************************************************)
(* VCBot: the ingestion / decision / delivery pipeline (vcbot/app.py) and  *)
(* its persistence ledger (vcbot/db.py).                                   *)
(*                                                                         *)
(* Instants are integers on one time line: 0 is None (or the empty         *)
(* string), a negative value is a non-empty string that parse_iso cannot   *)
(* parse, a positive value is a valid ISO-8601 instant.  All instants of   *)
(* catalog items come from iso_from_epoch, so they have one format and     *)
(* their string order is their time order.                                 *)
(***************************************************************************)
EXTENDS Integers, Sequences, FiniteSets, TLC

VARIABLES
    store,      \* the SQLite ledger: [mods, posts, meta]
    catalog,    \* the remote catalog, newest first (external collaborator)
    clock,      \* utc_now_iso(): the wall clock
    last        \* the most recent operation: what it was given and what it emitted

vars == <<store, catalog, clock, last>>

---------------------------------------------------------------------------
(* Bounds of the model                                                     *)

NumMods == 2        \* entry ids 1..NumMods
MaxClock == 7       \* the clock stops the model at this instant
MaxRows == 3        \* a pass or a call starts only below this number of attempt rows
PageSize == 2       \* config.size: items per catalog page

ModIds == 1..NumMods

---------------------------------------------------------------------------
(* Values                                                                  *)

NoneT == 0
BadT == 0 - 1
NoCap == 0 - 1
MissingId == 0
StudioName == "bethesdagamestudios"

Min(a, b) == IF a <= b THEN a ELSE b

\* F applied to the value of v, v evaluated once (Python binds a name to a value)
Bind(v, F(_)) == CHOOSE r \in { F(x) : x \in {v} } : TRUE

parse_iso(value) == IF value > 0 THEN value ELSE NoneT

\* Python's `a or b` on two optional strings
Or(a, b) == IF a # NoneT THEN a ELSE b

lower(name) ==
    IF name = "BethesdaGameStudios" THEN StudioName ELSE name

\* config.py defaults on the model's time line; page, the synthetic override and
\* the webhook url are per-invocation settings
Config(page, synthetic, webhook) ==
    [ product |-> "FALLOUT4",
      page |-> page,
      fallout4_hard_stop |-> 2,
      skyrim_hard_stop |-> 1,
      starfield_hard_stop |-> 1,
      bgs_ignore_before |-> 2,
      synthetic_last_seen_first_ptime |-> synthetic,
      discord_webhook_url |-> webhook ]

\* a Mod: the fields the pipeline reads; `content` stands for every other
\* mirrored field (title, overview, description, images, ...)
MakeMod(id, fp, pub, verified, content) ==
    [ mod_id |-> id,
      product |-> "FALLOUT4",
      author_displayname |-> "someone",
      author_verified |-> verified,
      prices |-> <<"pos">>,
      first_published_at |-> fp,
      published_at |-> pub,
      updated_at |-> pub,
      content |-> content ]

\* sha256 over the sorted-key JSON of the curated fields, taken as injective
compute_mod_hash(mod) ==
    << mod.content, mod.author_displayname, mod.author_verified,
       mod.updated_at, mod.published_at, mod.prices >>

---------------------------------------------------------------------------
(* The ledger (db.py)                                                      *)

EmptyStore == [ mods |-> <<>>, posts |-> <<>>, meta |-> NoneT ]

\* json.dumps / _json_load, int() / bool(): how a value is held in a column
\* a text column holds <<>> for NULL and <<"json", v>> for json.dumps(v)
SqlNull == <<>>
json_dumps(v) == <<"json", v>>
json_load(text, default) ==
    IF Len(text) = 2 /\ text[1] = "json" THEN text[2] ELSE default
int(b) == IF b THEN 1 ELSE 0
bool(i) == i # 0

\* get_mod returns None exactly when has_mod is false
has_mod(st, mod_id) == mod_id \in DOMAIN st.mods
get_mod(st, mod_id) == st.mods[mod_id]

\* get_mod_model, for a stored mod_id
get_mod_model(st, mod_id) ==
    LET row == get_mod(st, mod_id) IN
         [ mod_id |-> row.mod_id,
           product |-> row.product,
           author_displayname |-> row.author_displayname,
           author_verified |-> bool(row.author_verified),
           prices |-> json_load(row.prices_json, <<>>),
           first_published_at |-> row.first_published_at,
           published_at |-> row.published_at,
           updated_at |-> row.updated_at,
           content |-> row.content ]

get_meta(st) == st.meta

set_meta(st, value) == [st EXCEPT !.meta = value]

\* an upsert whose conflict arm takes first_seen_at from the incoming row
\* (first_seen_at = excluded.first_seen_at), the variant C9 is sensitive to
MirrorUpsert_FirstSeenOverwritten(row, mod, last_seen_at, mod_hash) ==
    [ row EXCEPT
        !.product = mod.product,
        !.author_displayname = mod.author_displayname,
        !.author_verified = int(mod.author_verified),
        !.prices_json = json_dumps(mod.prices),
        !.first_published_at = mod.first_published_at,
        !.published_at = mod.published_at,
        !.updated_at = mod.updated_at,
        !.content = mod.content,
        !.last_seen_at = last_seen_at,
        !.last_seen_ptime = mod.published_at,
        !.last_known_hash = mod_hash,
        !.first_seen_at = last_seen_at ]

\* an upsert that replaces the stored row (INSERT OR REPLACE): the columns the
\* statement does not name fall back to NULL, the variant C38 is sensitive to
MirrorUpsert_ReplacesRow(row, mod, last_seen_at, mod_hash) ==
    [ row EXCEPT
        !.product = mod.product,
        !.author_displayname = mod.author_displayname,
        !.author_verified = int(mod.author_verified),
        !.prices_json = json_dumps(mod.prices),
        !.first_published_at = mod.first_published_at,
        !.published_at = mod.published_at,
        !.updated_at = mod.updated_at,
        !.content = mod.content,
        !.last_seen_at = last_seen_at,
        !.last_seen_ptime = mod.published_at,
        !.last_known_hash = mod_hash,
        !.first_seen_at = Or(row.first_seen_at, last_seen_at),
        !.last_posted_at = NoneT,
        !.last_update_posted_at = NoneT ]

\* the columns written from the Mod by both arms of the upsert
MirrorUpsert(row, mod, last_seen_at, mod_hash) ==
    [ row EXCEPT
        !.product = mod.product,
        !.author_displayname = mod.author_displayname,
        !.author_verified = int(mod.author_verified),
        !.prices_json = json_dumps(mod.prices),
        !.first_published_at = mod.first_published_at,
        !.published_at = mod.published_at,
        !.updated_at = mod.updated_at,
        !.content = mod.content,
        !.last_seen_at = last_seen_at,
        !.last_seen_ptime = mod.published_at,
        !.last_known_hash = mod_hash,
        !.first_seen_at = Or(row.first_seen_at, last_seen_at) ]

\* a mods row before its columns are written; rowid is the key SQLite gives
\* every row of the table (mods is a rowid table), 0 while the row is not stored
BlankRow(mod_id) ==
    [ rowid |-> 0,
      mod_id |-> mod_id, product |-> "", author_displayname |-> "",
      author_verified |-> 0, prices_json |-> SqlNull,
      first_published_at |-> NoneT, published_at |-> NoneT,
      updated_at |-> NoneT, content |-> NoneT,
      first_seen_at |-> NoneT, last_seen_at |-> NoneT,
      last_seen_ptime |-> NoneT, last_posted_at |-> NoneT,
      last_update_posted_at |-> NoneT, last_known_hash |-> SqlNull ]

\* the rowid an inserted mods row gets: one more than the largest in the table
NextModRowid(st) ==
    IF DOMAIN st.mods = {} THEN 1
    ELSE 1 + CHOOSE n \in { st.mods[k].rowid : k \in DOMAIN st.mods } :
                 \A k \in DOMAIN st.mods : st.mods[k].rowid <= n

upsert_mod(st, mod, last_seen_at, mod_hash) ==
    LET id == mod.mod_id
        old == IF id \in DOMAIN st.mods THEN st.mods[id]
               ELSE [BlankRow(id) EXCEPT !.rowid = NextModRowid(st)]
        new == MirrorUpsert(old, mod, last_seen_at, mod_hash)
    IN [st EXCEPT !.mods =
            [k \in (DOMAIN st.mods) \cup {id} |-> IF k = id THEN new ELSE st.mods[k]]]

\* the posts constraints without the unique index idx_posts_unique, the
\* variant C10 is sensitive to
PostAccepted_NoUniqueIndex(st, mod_id, post_type, post_id) ==
    /\ post_type \in {"new", "update"}
    /\ mod_id \in DOMAIN st.mods

\* the constraints a posts row must meet: post_type check, the foreign key on
\* mods(mod_id) and the unique index idx_posts_unique
PostAccepted(st, mod_id, post_type, post_id) ==
    /\ post_type \in {"new", "update"}
    /\ mod_id \in DOMAIN st.mods
    /\ \A i \in 1..Len(st.posts) :
          ~ ( st.posts[i].mod_id = mod_id
              /\ st.posts[i].post_type = post_type
              /\ st.posts[i].post_id = post_id )

NextRowId(st) == Len(st.posts) + 1

\* a mark_posted that writes the marker of a successful attempt only, the
\* variant C8 is sensitive to
mark_posted_MarkerOnSuccess(st, mod_id, post_type, post_id, posted_at, target, success, error_message) ==
    IF ~ PostAccepted(st, mod_id, post_type, post_id) THEN st
    ELSE
      LET row == [ id |-> NextRowId(st), mod_id |-> mod_id, post_id |-> post_id,
                   post_type |-> post_type, target |-> target,
                   success |-> int(success), error_message |-> error_message,
                   posted_at |-> posted_at ]
      IN [ st EXCEPT
             !.posts = Append(@, row),
             !.mods[mod_id] =
                 IF ~ success THEN @
                 ELSE IF post_type = "new"
                 THEN [@ EXCEPT !.last_posted_at = posted_at]
                 ELSE [@ EXCEPT !.last_update_posted_at = posted_at] ]

\* a mark_posted that rewrites the latest row of the same entry, action and
\* target where there is one, instead of inserting, the variant C7 is
\* sensitive to
mark_posted_ReplacingRow(st, mod_id, post_type, post_id, posted_at, target, success, error_message) ==
    IF ~ PostAccepted(st, mod_id, post_type, post_id) THEN st
    ELSE
      LET row == [ id |-> NextRowId(st), mod_id |-> mod_id, post_id |-> post_id,
                   post_type |-> post_type, target |-> target,
                   success |-> int(success), error_message |-> error_message,
                   posted_at |-> posted_at ]
          same == { i \in 1..Len(st.posts) :
                      /\ st.posts[i].mod_id = mod_id
                      /\ st.posts[i].post_type = post_type
                      /\ st.posts[i].target = target }
          at == IF same = {} THEN 0 ELSE CHOOSE i \in same : \A j \in same : j <= i
      IN [ st EXCEPT
             !.posts = IF at = 0 THEN Append(@, row)
                       ELSE [@ EXCEPT ![at] = [row EXCEPT !.id = at]],
             !.mods[mod_id] =
                 IF post_type = "new"
                 THEN [@ EXCEPT !.last_posted_at = posted_at]
                 ELSE [@ EXCEPT !.last_update_posted_at = posted_at] ]

\* a mark_posted that sets a marker only while it is not set (the first
\* attempt wins), the variant C21 is sensitive to
mark_posted_FirstMarkerWins(st, mod_id, post_type, post_id, posted_at, target, success, error_message) ==
    IF ~ PostAccepted(st, mod_id, post_type, post_id) THEN st
    ELSE
      LET row == [ id |-> NextRowId(st), mod_id |-> mod_id, post_id |-> post_id,
                   post_type |-> post_type, target |-> target,
                   success |-> int(success), error_message |-> error_message,
                   posted_at |-> posted_at ]
      IN [ st EXCEPT
             !.posts = Append(@, row),
             !.mods[mod_id] =
                 IF post_type = "new"
                 THEN [@ EXCEPT !.last_posted_at = Or(@, posted_at)]
                 ELSE [@ EXCEPT !.last_update_posted_at = Or(@, posted_at)] ]

\* a mark_posted whose marker UPDATE is committed on its own, ahead of the
\* INSERT: a call rejected by the unique index has moved the marker all the
\* same, the variant C39 is sensitive to
mark_posted_MarkerOutsideTransaction(st, mod_id, post_type, post_id, posted_at, target, success, error_message) ==
    IF post_type \notin {"new", "update"} \/ mod_id \notin DOMAIN st.mods THEN st
    ELSE
      LET row == [ id |-> NextRowId(st), mod_id |-> mod_id, post_id |-> post_id,
                   post_type |-> post_type, target |-> target,
                   success |-> int(success), error_message |-> error_message,
                   posted_at |-> posted_at ]
      IN [ st EXCEPT
             !.posts = IF PostAccepted(st, mod_id, post_type, post_id)
                       THEN Append(@, row) ELSE @,
             !.mods[mod_id] =
                 IF post_type = "new"
                 THEN [@ EXCEPT !.last_posted_at = posted_at]
                 ELSE [@ EXCEPT !.last_update_posted_at = posted_at] ]

\* mark_posted: one transaction; a rejected call raises and changes nothing
mark_posted(st, mod_id, post_type, post_id, posted_at, target, success, error_message) ==
    IF ~ PostAccepted(st, mod_id, post_type, post_id) THEN st
    ELSE
      LET row == [ id |-> NextRowId(st), mod_id |-> mod_id, post_id |-> post_id,
                   post_type |-> post_type, target |-> target,
                   success |-> int(success), error_message |-> error_message,
                   posted_at |-> posted_at ]
      IN [ st EXCEPT
             !.posts = Append(@, row),
             !.mods[mod_id] =
                 IF post_type = "new"
                 THEN [@ EXCEPT !.last_posted_at = posted_at]
                 ELSE [@ EXCEPT !.last_update_posted_at = posted_at] ]

\* every (mod_id, post_type) key in the order the GROUP BY lists its groups
GroupKeys ==
    [ i \in 1..(2 * NumMods) |->
        << (i + 1) \div 2, IF i % 2 = 1 THEN "new" ELSE "update" >> ]

\* the query with success = 1 in its WHERE clause, the variant C6 is
\* sensitive to
FailedRows_Succeeded(st, target) ==
    SelectSeq(st.posts, LAMBDA r : r.target = target /\ r.success = 1)

\* SELECT mod_id, post_type FROM posts WHERE target = ? AND success = 0
FailedRows(st, target) ==
    SelectSeq(st.posts, LAMBDA r : r.target = target /\ r.success = 0)

\* ... GROUP BY mod_id, post_type: one result row per group
get_failed_posts(st, target) ==
    LET rows == FailedRows(st, target)
        hit(key) == \E i \in 1..Len(rows) :
                        rows[i].mod_id = key[1] /\ rows[i].post_type = key[2]
    IN SelectSeq(GroupKeys, hit)

HasDiscordNewSuccess(st, mod_id) ==
    \E i \in 1..Len(st.posts) :
        /\ st.posts[i].mod_id = mod_id
        /\ st.posts[i].target = "discord"
        /\ st.posts[i].success = 1
        /\ st.posts[i].post_type = "new"

\* SELECT mods.mod_id, 'new' FROM mods WHERE last_posted_at IS NOT NULL AND NOT EXISTS (...)
get_missing_discord_posts(st) ==
    LET ids == [ i \in 1..NumMods |-> i ]
        miss(id) == /\ id \in DOMAIN st.mods
                    /\ st.mods[id].last_posted_at # NoneT
                    /\ ~ HasDiscordNewSuccess(st, id)
        sel == SelectSeq(ids, miss)
    IN [ i \in 1..Len(sel) |-> << sel[i], "new" >> ]

\* the mods rows in the order a scan of the table returns them: by rowid
ModsByRowid(st) ==
    LET ids == DOMAIN st.mods
        rank(k) == Cardinality({ j \in ids : st.mods[j].rowid <= st.mods[k].rowid })
    IN [ i \in 1..Cardinality(ids) |-> st.mods[CHOOSE k \in ids : rank(k) = i] ]

\* dict(row) of a `SELECT *` row: every declared column; the rowid is not one
SelectedColumns(row) == [ c \in (DOMAIN row) \ {"rowid"} |-> row[c] ]

\* the key of the high-water mark in the meta table, the one key the model holds
MetaKey == "last_seen_first_ptime:FALLOUT4"

\* export_json: the rows of the three tables, each as a dict of its columns
export_json(st) ==
    [ mods |-> [ i \in 1..Len(ModsByRowid(st)) |-> SelectedColumns(ModsByRowid(st)[i]) ],
      posts |-> st.posts,
      meta |-> IF st.meta = NoneT THEN <<>>
               ELSE << [ key |-> MetaKey, value |-> st.meta ] >> ]

\* INSERT OR REPLACE INTO meta (key, value)
ReplaceMeta(st, row) ==
    IF row.key = MetaKey THEN [st EXCEPT !.meta = row.value] ELSE st

\* INSERT OR REPLACE INTO mods (<the columns of the dict>): a row of the same
\* mod_id is deleted, the new row gets the next rowid
ReplaceMod(st, row) ==
    LET kept == [ k \in (DOMAIN st.mods) \ {row.mod_id} |-> st.mods[k] ]
        rowid == NextModRowid([st EXCEPT !.mods = kept])
        new == [ c \in (DOMAIN row) \cup {"rowid"} |->
                   IF c = "rowid" THEN rowid ELSE row[c] ]
    IN [ st EXCEPT !.mods =
           [ k \in (DOMAIN kept) \cup {row.mod_id} |->
               IF k = row.mod_id THEN new ELSE kept[k] ] ]

\* INSERT OR REPLACE INTO posts (<the columns of the dict>), id included: the
\* rows of the same id or of the same (mod_id, post_type, post_id) are deleted;
\* the table is kept in the order of its ids
ReplacePost(st, row) ==
    LET kept == SelectSeq(st.posts, LAMBDA r :
                    /\ r.id # row.id
                    /\ ~ ( r.mod_id = row.mod_id /\ r.post_type = row.post_type
                           /\ r.post_id = row.post_id ))
    IN [ st EXCEPT !.posts =
           SelectSeq(kept, LAMBDA r : r.id < row.id) \o << row >>
             \o SelectSeq(kept, LAMBDA r : r.id > row.id) ]

\* the three loops of import_json, each over the rows of one list; `raised`: a
\* posts row names a mod_id that mods does not hold (FOREIGN KEY constraint failed)
RECURSIVE ImportRows(_, _, _, _)
ImportRows(acc, table, rows, i) ==
    IF i > Len(rows) \/ acc.raised THEN acc
    ELSE Bind(
           IF table = "meta" THEN [acc EXCEPT !.st = ReplaceMeta(@, rows[i])]
           ELSE IF table = "mods" THEN [acc EXCEPT !.st = ReplaceMod(@, rows[i])]
           ELSE IF ~ has_mod(acc.st, rows[i].mod_id) THEN [acc EXCEPT !.raised = TRUE]
           ELSE [acc EXCEPT !.st = ReplacePost(@, rows[i])],
           LAMBDA a : ImportRows(a, table, rows, i + 1))

\* an import that writes the posts rows before the mods rows, the variant C31
\* is sensitive to
import_json_PostsBeforeMods(st, payload) ==
    Bind(ImportRows([ st |-> st, raised |-> FALSE ], "meta", payload.meta, 1), LAMBDA a1 :
      Bind(ImportRows(a1, "posts", payload.posts, 1), LAMBDA a2 :
        Bind(ImportRows(a2, "mods", payload.mods, 1), LAMBDA a3 :
          IF a3.raised THEN [ st |-> st, raised |-> TRUE ] ELSE a3)))

\* import_json: meta, then mods, then posts, in one transaction (`with
\* self.conn`): an exception rolls every row of the import back
import_json(st, payload) ==
    Bind(ImportRows([ st |-> st, raised |-> FALSE ], "meta", payload.meta, 1), LAMBDA a1 :
      Bind(ImportRows(a1, "mods", payload.mods, 1), LAMBDA a2 :
        Bind(ImportRows(a2, "posts", payload.posts, 1), LAMBDA a3 :
          IF a3.raised THEN [ st |-> st, raised |-> TRUE ] ELSE a3)))

---------------------------------------------------------------------------
(* Eligibility and change detection (app.py)                               *)

IsStudio(mod) == lower(mod.author_displayname) = StudioName

\* a price amount is "pos" (a positive number), "zero", "bad" (not a number)
\* or "none" (no amount)
_has_paid_price(prices) == \E i \in 1..Len(prices) : prices[i] = "pos"

ModDate(mod) == Or(parse_iso(mod.first_published_at), parse_iso(mod.published_at))

\* a hard-stop test that fails an entry without a valid instant, the variant
\* C17 is sensitive to
_passes_hard_stop_NotPermissive(mod, config) ==
    IF mod.product \notin {"FALLOUT4", "SKYRIM", "STARFIELD"} THEN TRUE
    ELSE
      LET cutoff == parse_iso(
                      IF mod.product = "FALLOUT4" THEN config.fallout4_hard_stop
                      ELSE IF mod.product = "SKYRIM" THEN config.skyrim_hard_stop
                      ELSE config.starfield_hard_stop)
          mod_date == ModDate(mod)
      IN IF cutoff = NoneT THEN TRUE
         ELSE IF mod_date = NoneT THEN FALSE
         ELSE mod_date >= cutoff

_passes_hard_stop(mod, config) ==
    IF mod.product \notin {"FALLOUT4", "SKYRIM", "STARFIELD"} THEN TRUE
    ELSE
      LET cutoff == parse_iso(
                      IF mod.product = "FALLOUT4" THEN config.fallout4_hard_stop
                      ELSE IF mod.product = "SKYRIM" THEN config.skyrim_hard_stop
                      ELSE config.starfield_hard_stop)
          mod_date == ModDate(mod)
      IN IF cutoff = NoneT \/ mod_date = NoneT THEN TRUE ELSE mod_date >= cutoff

_passes_bgs_ignore(mod, config) ==
    IF ~ IsStudio(mod) THEN TRUE
    ELSE
      LET cutoff == parse_iso(config.bgs_ignore_before)
          mod_date == ModDate(mod)
      IN IF cutoff = NoneT \/ mod_date = NoneT THEN TRUE ELSE mod_date >= cutoff

\* an eligibility test without the studio bypass for an empty price list, the
\* variant C18 is sensitive to
_is_new_creation_NoBypass(mod, config) ==
    IF ~ _passes_hard_stop(mod, config) THEN FALSE
    ELSE IF ~ _passes_bgs_ignore(mod, config) THEN FALSE
    ELSE IF ~ mod.author_verified THEN FALSE
    ELSE IF Len(mod.prices) = 0 THEN FALSE
    ELSE IF ~ _has_paid_price(mod.prices) THEN IsStudio(mod)
    ELSE TRUE

_is_new_creation(mod, config) ==
    IF ~ _passes_hard_stop(mod, config) THEN FALSE
    ELSE IF ~ _passes_bgs_ignore(mod, config) THEN FALSE
    ELSE IF ~ mod.author_verified THEN FALSE
    ELSE IF Len(mod.prices) = 0 THEN IsStudio(mod)
    ELSE IF ~ _has_paid_price(mod.prices) THEN IsStudio(mod)
    ELSE TRUE

\* an update test that is due at an equal instant too (>=), the variant C16 is
\* sensitive to
_is_update_due_NotStrict(existing, mod, mod_hash) ==
    LET existing_hash == existing.last_known_hash
        changed == existing_hash = SqlNull \/ existing_hash # mod_hash
        updated_at == Or(parse_iso(mod.published_at), parse_iso(mod.updated_at))
        last_update_posted_at ==
            parse_iso(Or(existing.last_update_posted_at, existing.last_posted_at))
    IN IF updated_at # NoneT /\ last_update_posted_at # NoneT
         THEN updated_at >= last_update_posted_at
       ELSE IF updated_at # NoneT /\ last_update_posted_at = NoneT THEN TRUE
       ELSE changed

_is_update_due(existing, mod, mod_hash) ==
    LET existing_hash == existing.last_known_hash
        changed == existing_hash = SqlNull \/ existing_hash # mod_hash
        updated_at == Or(parse_iso(mod.published_at), parse_iso(mod.updated_at))
        last_update_posted_at ==
            parse_iso(Or(existing.last_update_posted_at, existing.last_posted_at))
    IN IF updated_at # NoneT /\ last_update_posted_at # NoneT
         THEN updated_at > last_update_posted_at
       ELSE IF updated_at # NoneT /\ last_update_posted_at = NoneT THEN TRUE
       ELSE changed

\* a classification that does not look at post_new, the variant C15 is
\* sensitive to
_determine_action_AnyFlag(st, mod, mod_hash, post_new, post_updates, config) ==
    IF ~ has_mod(st, mod.mod_id)
      THEN IF _is_new_creation(mod, config) THEN "new" ELSE "none"
    ELSE IF post_updates /\ _is_update_due(get_mod(st, mod.mod_id), mod, mod_hash)
      THEN "update"
    ELSE "none"

\* a classification that takes an entry for new until a post of it is on
\* record (last_posted_at set), the variant C34 is sensitive to
_determine_action_NewUntilPosted(st, mod, mod_hash, post_new, post_updates, config) ==
    IF ~ has_mod(st, mod.mod_id) \/ get_mod(st, mod.mod_id).last_posted_at = NoneT
      THEN IF post_new /\ _is_new_creation(mod, config) THEN "new" ELSE "none"
    ELSE IF post_updates /\ _is_update_due(get_mod(st, mod.mod_id), mod, mod_hash)
      THEN "update"
    ELSE "none"

\* the action is "new", "update" or "none"
_determine_action(st, mod, mod_hash, post_new, post_updates, config) ==
    IF ~ has_mod(st, mod.mod_id)
      THEN IF post_new /\ _is_new_creation(mod, config) THEN "new" ELSE "none"
    ELSE IF post_updates /\ _is_update_due(get_mod(st, mod.mod_id), mod, mod_hash)
      THEN "update"
    ELSE "none"

_resolve_first_ptime_cutoff(config, st, dry_run) ==
    IF config.synthetic_last_seen_first_ptime # NoneT
      THEN config.synthetic_last_seen_first_ptime
    ELSE IF dry_run THEN config.synthetic_last_seen_first_ptime
    ELSE get_meta(st)

\* the cutoff test with a strict comparison, the variant C11 is sensitive to
_is_before_first_ptime(mod, cutoff) ==
    LET mod_time == ModDate(mod)
        cutoff_time == parse_iso(cutoff)
    IN IF mod_time = NoneT \/ cutoff_time = NoneT THEN FALSE
       ELSE mod_time < cutoff_time

_is_before_or_equal_first_ptime(mod, cutoff) ==
    LET mod_time == ModDate(mod)
        cutoff_time == parse_iso(cutoff)
    IN IF mod_time = NoneT \/ cutoff_time = NoneT THEN FALSE
       ELSE mod_time <= cutoff_time

_hard_stop_for_product(config) ==
    IF config.product = "FALLOUT4" THEN config.fallout4_hard_stop
    ELSE IF config.product = "SKYRIM" THEN config.skyrim_hard_stop
    ELSE IF config.product = "STARFIELD" THEN config.starfield_hard_stop
    ELSE NoneT

_max_iso(left, right) ==
    LET left_time == IF left # NoneT THEN parse_iso(left) ELSE NoneT
        right_time == IF right # NoneT THEN parse_iso(right) ELSE NoneT
    IN IF left_time # NoneT /\ right_time # NoneT
         THEN IF left_time >= right_time THEN left ELSE right
       ELSE Or(left, right)

---------------------------------------------------------------------------
(* The sync pass and the delivery handler (app.py)                         *)

\* uuid4().hex, and the id the posting API gives a submitted post: values no
\* earlier row carries
_attempt_id(st) == << "uuid", NextRowId(st) >>
RemotePostId(st) == << "t3", NextRowId(st) >>

\* BethesdaClient.fetch_mods: page `page` of the catalog, config.size items a page
fetch_mods(cat, page) ==
    SubSeq(cat, (page - 1) * PageSize + 1, Min(page * PageSize, Len(cat)))

\* utc_now_iso() as a delivery reads it: the instant the pass started, plus
\* ctx.tick for every attempt the pass has made since (no two reads of the wall
\* clock need give one instant)
posted_at_now(ctx, acc) == ctx.now + Len(acc.sent) * ctx.tick

\* one remote attempt with its try/except bookkeeping: the success row is
\* written inside the try, so a rejected success row falls to the except arm
Attempt(ctx, acc, mod_id, post_type, target, ok, ok_id) ==
    LET st == acc.st
        posted_at == posted_at_now(ctx, acc)
        recorded == ok /\ PostAccepted(st, mod_id, post_type, ok_id)
        st2 == IF recorded
                 THEN mark_posted(st, mod_id, post_type, ok_id, posted_at, target, TRUE, "")
               ELSE mark_posted(st, mod_id, post_type, _attempt_id(st), posted_at,
                                target, FALSE, "exc")
    IN [ acc EXCEPT
           !.st = st2,
           !.sent = Append(@, [ mod_id |-> mod_id, post_type |-> post_type,
                                target |-> target, ok |-> ok ]) ]

\* a handler that delivers an update as it delivers a new entry, the variant
\* C24 is sensitive to
handle_action_DeliversUpdates(ctx, acc, action, mod) ==
    IF ctx.max_posts # NoCap /\ acc.post_count >= ctx.max_posts THEN acc
    ELSE IF ctx.dry_run
      THEN IF ~ ctx.post_template THEN [acc EXCEPT !.raised = TRUE]
           ELSE [acc EXCEPT !.dry_run_count = @ + 1]
    ELSE IF ctx.manual
      THEN IF ~ ctx.post_template \/ ~ ctx.discord_template
             THEN [acc EXCEPT !.raised = TRUE]
           ELSE [acc EXCEPT !.post_count = @ + 1, !.written = Append(@, mod.mod_id)]
    ELSE
      Bind([acc EXCEPT !.post_count = @ + 1], LAMBDA a1 :
        Bind(Attempt(ctx, a1, mod.mod_id, action, "reddit",
                     ctx.reddit_up /\ ctx.post_template, RemotePostId(a1.st)),
             LAMBDA a2 :
          IF ~ ctx.discord THEN a2
          ELSE IF ~ ctx.discord_template THEN [a2 EXCEPT !.raised = TRUE]
          ELSE Attempt(ctx, a2, mod.mod_id, action, "discord",
                       ctx.discord_up, _attempt_id(a2.st))))

\* a handler whose count of posts takes in the successful posts only, the
\* variant C23 is sensitive to
handle_action_CountsSuccesses(ctx, acc, action, mod) ==
    IF ctx.max_posts # NoCap /\ acc.post_count >= ctx.max_posts THEN acc
    ELSE IF action = "update" THEN acc
    ELSE IF ctx.dry_run
      THEN IF ~ ctx.post_template THEN [acc EXCEPT !.raised = TRUE]
           ELSE [acc EXCEPT !.dry_run_count = @ + 1]
    ELSE IF ctx.manual
      THEN IF ~ ctx.post_template \/ ~ ctx.discord_template
             THEN [acc EXCEPT !.raised = TRUE]
           ELSE [acc EXCEPT !.post_count = @ + 1, !.written = Append(@, mod.mod_id)]
    ELSE
      Bind([acc EXCEPT !.post_count =
                IF ctx.reddit_up /\ ctx.post_template THEN @ + 1 ELSE @], LAMBDA a1 :
        Bind(Attempt(ctx, a1, mod.mod_id, action, "reddit",
                     ctx.reddit_up /\ ctx.post_template, RemotePostId(a1.st)),
             LAMBDA a2 :
          IF ~ ctx.discord THEN a2
          ELSE IF ~ ctx.discord_template THEN [a2 EXCEPT !.raised = TRUE]
          ELSE Attempt(ctx, a2, mod.mod_id, action, "discord",
                       ctx.discord_up, _attempt_id(a2.st))))

\* a handler that delivers nothing more once an attempt of the run has failed
\* (the error ends the deliveries of the run), the variant C20 is sensitive to
handle_action_StopsAfterError(ctx, acc, action, mod) ==
    IF ctx.max_posts # NoCap /\ acc.post_count >= ctx.max_posts THEN acc
    ELSE IF action = "update" THEN acc
    ELSE IF ctx.dry_run
      THEN IF ~ ctx.post_template THEN [acc EXCEPT !.raised = TRUE]
           ELSE [acc EXCEPT !.dry_run_count = @ + 1]
    ELSE IF ctx.manual
      THEN IF ~ ctx.post_template \/ ~ ctx.discord_template
             THEN [acc EXCEPT !.raised = TRUE]
           ELSE [acc EXCEPT !.post_count = @ + 1, !.written = Append(@, mod.mod_id)]
    ELSE IF \E k \in 1..Len(acc.sent) : ~ acc.sent[k].ok THEN acc
    ELSE
      Bind([acc EXCEPT !.post_count = @ + 1], LAMBDA a1 :
        Bind(Attempt(ctx, a1, mod.mod_id, action, "reddit",
                     ctx.reddit_up /\ ctx.post_template, RemotePostId(a1.st)),
             LAMBDA a2 :
          IF ~ ctx.discord THEN a2
          ELSE IF ~ ctx.discord_template THEN [a2 EXCEPT !.raised = TRUE]
          ELSE Attempt(ctx, a2, mod.mod_id, action, "discord",
                       ctx.discord_up, _attempt_id(a2.st))))

\* a handler that goes on to the webhook only after a successful post, the
\* variant C19 is sensitive to
handle_action_WebhookAfterSuccess(ctx, acc, action, mod) ==
    IF ctx.max_posts # NoCap /\ acc.post_count >= ctx.max_posts THEN acc
    ELSE IF action = "update" THEN acc
    ELSE IF ctx.dry_run
      THEN IF ~ ctx.post_template THEN [acc EXCEPT !.raised = TRUE]
           ELSE [acc EXCEPT !.dry_run_count = @ + 1]
    ELSE IF ctx.manual
      THEN IF ~ ctx.post_template \/ ~ ctx.discord_template
             THEN [acc EXCEPT !.raised = TRUE]
           ELSE [acc EXCEPT !.post_count = @ + 1, !.written = Append(@, mod.mod_id)]
    ELSE
      Bind([acc EXCEPT !.post_count = @ + 1], LAMBDA a1 :
        Bind(Attempt(ctx, a1, mod.mod_id, action, "reddit",
                     ctx.reddit_up /\ ctx.post_template, RemotePostId(a1.st)),
             LAMBDA a2 :
          IF ~ (ctx.discord /\ ctx.reddit_up) THEN a2
          ELSE IF ~ ctx.discord_template THEN [a2 EXCEPT !.raised = TRUE]
          ELSE Attempt(ctx, a2, mod.mod_id, action, "discord",
                       ctx.discord_up, _attempt_id(a2.st))))

\* run.handle_action; render_post_body raises when the template file is not
\* there: inside the try for the posting API, outside it for the webhook, the
\* dry run and the manual output (which also renders the wiki template, taken
\* here with the webhook one)
handle_action(ctx, acc, action, mod) ==
    IF ctx.max_posts # NoCap /\ acc.post_count >= ctx.max_posts THEN acc
    ELSE IF action = "update" THEN acc
    ELSE IF ctx.dry_run
      THEN IF ~ ctx.post_template THEN [acc EXCEPT !.raised = TRUE]
           ELSE [acc EXCEPT !.dry_run_count = @ + 1]
    ELSE IF ctx.manual
      THEN IF ~ ctx.post_template \/ ~ ctx.discord_template
             THEN [acc EXCEPT !.raised = TRUE]
           ELSE [acc EXCEPT !.post_count = @ + 1, !.written = Append(@, mod.mod_id)]
    ELSE
      Bind([acc EXCEPT !.post_count = @ + 1], LAMBDA a1 :
        Bind(Attempt(ctx, a1, mod.mod_id, action, "reddit",
                     ctx.reddit_up /\ ctx.post_template, RemotePostId(a1.st)),
             LAMBDA a2 :
          IF ~ ctx.discord THEN a2
          ELSE IF ~ ctx.discord_template THEN [a2 EXCEPT !.raised = TRUE]
          ELSE Attempt(ctx, a2, mod.mod_id, action, "discord",
                       ctx.discord_up, _attempt_id(a2.st))))

\* with a handler the action goes to it, without one it is only listed
Emit(ctx, acc, action, mod) ==
    Bind([acc EXCEPT !.actions = Append(@, << action, mod.mod_id >>)], LAMBDA a1 :
      IF ctx.handler THEN handle_action(ctx, a1, action, mod) ELSE a1)

\* a loop body that makes the cutoff test before it skips an item without an
\* id, the variant C27 is sensitive to
ProcessItem_CutoffTestFirst(ctx, eff, acc, mod) ==
    LET stop == acc.stop \/ (eff # NoneT /\ _is_before_or_equal_first_ptime(mod, eff))
    IN
    IF mod.mod_id = MissingId THEN [acc EXCEPT !.stop = stop]
    ELSE
      LET mod_hash == compute_mod_hash(mod)
          action == _determine_action(acc.st, mod, mod_hash, ctx.post_new,
                                      ctx.post_updates, ctx.config)
          eligible == _is_new_creation(mod, ctx.config)
          handled(a1) ==
              IF action # "none" THEN Emit(ctx, a1, action, mod)
              ELSE IF ctx.emit_eligible /\ eligible THEN Emit(ctx, a1, "new", mod)
              ELSE a1
          seen(a2) ==
              [ a2 EXCEPT !.max_first_ptime =
                  IF mod.first_published_at # NoneT
                     /\ (@ = NoneT \/ mod.first_published_at > @)
                  THEN mod.first_published_at ELSE @ ]
      IN Bind([ acc EXCEPT !.stop = stop,
                           !.classified = Append(@, << action, mod.mod_id >>),
                           !.st = upsert_mod(@, mod, ctx.now, mod_hash) ],
              LAMBDA a1 : Bind(handled(a1),
                               LAMBDA a2 : IF a2.raised THEN a2 ELSE seen(a2)))

\* a loop body that emits the items of action none without the eligibility
\* test when emit_eligible is set, the variant C25 is sensitive to
ProcessItem_EmitsEveryItem(ctx, eff, acc, mod) ==
    IF mod.mod_id = MissingId THEN acc
    ELSE
      LET stop == acc.stop \/ (eff # NoneT /\ _is_before_or_equal_first_ptime(mod, eff))
          mod_hash == compute_mod_hash(mod)
          action == _determine_action(acc.st, mod, mod_hash, ctx.post_new,
                                      ctx.post_updates, ctx.config)
          handled(a1) ==
              IF action # "none" THEN Emit(ctx, a1, action, mod)
              ELSE IF ctx.emit_eligible THEN Emit(ctx, a1, "new", mod)
              ELSE a1
          seen(a2) ==
              [ a2 EXCEPT !.max_first_ptime =
                  IF mod.first_published_at # NoneT
                     /\ (@ = NoneT \/ mod.first_published_at > @)
                  THEN mod.first_published_at ELSE @ ]
      IN Bind([ acc EXCEPT !.stop = stop,
                           !.classified = Append(@, << action, mod.mod_id >>),
                           !.st = upsert_mod(@, mod, ctx.now, mod_hash) ],
              LAMBDA a1 : Bind(handled(a1),
                               LAMBDA a2 : IF a2.raised THEN a2 ELSE seen(a2)))

\* a loop body that records an item only when it is acted on, the variant C22
\* is sensitive to
ProcessItem_UpsertWhenActed(ctx, eff, acc, mod) ==
    IF mod.mod_id = MissingId THEN acc
    ELSE
      LET stop == acc.stop \/ (eff # NoneT /\ _is_before_or_equal_first_ptime(mod, eff))
          mod_hash == compute_mod_hash(mod)
          action == _determine_action(acc.st, mod, mod_hash, ctx.post_new,
                                      ctx.post_updates, ctx.config)
          eligible == _is_new_creation(mod, ctx.config)
          handled(a1) ==
              IF action # "none" THEN Emit(ctx, a1, action, mod)
              ELSE IF ctx.emit_eligible /\ eligible THEN Emit(ctx, a1, "new", mod)
              ELSE a1
          seen(a2) ==
              [ a2 EXCEPT !.max_first_ptime =
                  IF mod.first_published_at # NoneT
                     /\ (@ = NoneT \/ mod.first_published_at > @)
                  THEN mod.first_published_at ELSE @ ]
      IN Bind([ acc EXCEPT !.stop = stop,
                           !.classified = Append(@, << action, mod.mod_id >>),
                           !.st = IF action = "none" THEN @
                                  ELSE upsert_mod(@, mod, ctx.now, mod_hash) ],
              LAMBDA a1 : Bind(handled(a1),
                               LAMBDA a2 : IF a2.raised THEN a2 ELSE seen(a2)))

\* a loop body that hands the item to the handler before it records it, the
\* variant C37 is sensitive to
ProcessItem_HandlerBeforeUpsert(ctx, eff, acc, mod) ==
    IF mod.mod_id = MissingId THEN acc
    ELSE
      LET stop == acc.stop \/ (eff # NoneT /\ _is_before_or_equal_first_ptime(mod, eff))
          mod_hash == compute_mod_hash(mod)
          action == _determine_action(acc.st, mod, mod_hash, ctx.post_new,
                                      ctx.post_updates, ctx.config)
          eligible == _is_new_creation(mod, ctx.config)
          handled(a1) ==
              IF action # "none" THEN Emit(ctx, a1, action, mod)
              ELSE IF ctx.emit_eligible /\ eligible THEN Emit(ctx, a1, "new", mod)
              ELSE a1
          seen(a2) ==
              [ a2 EXCEPT !.max_first_ptime =
                  IF mod.first_published_at # NoneT
                     /\ (@ = NoneT \/ mod.first_published_at > @)
                  THEN mod.first_published_at ELSE @ ]
      IN Bind([ acc EXCEPT !.stop = stop,
                           !.classified = Append(@, << action, mod.mod_id >>) ],
              LAMBDA a1 : Bind(handled(a1),
                               LAMBDA a2 : IF a2.raised THEN a2
                                           ELSE seen([ a2 EXCEPT !.st =
                                                  upsert_mod(@, mod, ctx.now, mod_hash) ])))

\* the body of `for mod in mods` in sync_mods
ProcessItem(ctx, eff, acc, mod) ==
    IF mod.mod_id = MissingId THEN acc
    ELSE
      LET stop == acc.stop \/ (eff # NoneT /\ _is_before_or_equal_first_ptime(mod, eff))
          mod_hash == compute_mod_hash(mod)
          action == _determine_action(acc.st, mod, mod_hash, ctx.post_new,
                                      ctx.post_updates, ctx.config)
          eligible == _is_new_creation(mod, ctx.config)
          handled(a1) ==
              IF action # "none" THEN Emit(ctx, a1, action, mod)
              ELSE IF ctx.emit_eligible /\ eligible THEN Emit(ctx, a1, "new", mod)
              ELSE a1
          seen(a2) ==
              [ a2 EXCEPT !.max_first_ptime =
                  IF mod.first_published_at # NoneT
                     /\ (@ = NoneT \/ mod.first_published_at > @)
                  THEN mod.first_published_at ELSE @ ]
      IN Bind([ acc EXCEPT !.stop = stop,
                           !.classified = Append(@, << action, mod.mod_id >>),
                           !.st = upsert_mod(@, mod, ctx.now, mod_hash) ],
              LAMBDA a1 : Bind(handled(a1),
                               LAMBDA a2 : IF a2.raised THEN a2 ELSE seen(a2)))

\* a page loop that leaves the page at the item that triggers the stop, the
\* variant C12 is sensitive to
RECURSIVE ProcessItems_StopAtTrigger(_, _, _, _, _)
ProcessItems_StopAtTrigger(ctx, eff, acc, mods, i) ==
    IF i > Len(mods) \/ acc.raised \/ acc.stop THEN acc
    ELSE Bind(ProcessItem(ctx, eff, acc, mods[i]),
              LAMBDA a : ProcessItems_StopAtTrigger(ctx, eff, a, mods, i + 1))

RECURSIVE ProcessItems(_, _, _, _, _)
ProcessItems(ctx, eff, acc, mods, i) ==
    IF i > Len(mods) \/ acc.raised THEN acc
    ELSE Bind(ProcessItem(ctx, eff, acc, mods[i]),
              LAMBDA a : ProcessItems(ctx, eff, a, mods, i + 1))

\* the `while True` loop of sync_mods, one page a turn; the request numbered
\* ctx.fetch_fails of the pass raises (0: none does), an exception leaves the loop
RECURSIVE Walk(_, _, _, _, _)
Walk(ctx, eff, cat, acc, page) ==
    IF ctx.fetch_fails = Len(acc.pages) + 1 THEN [acc EXCEPT !.raised = TRUE]
    ELSE
      LET mods == fetch_mods(cat, page)
          a1 == [ acc EXCEPT !.total_seen = @ + Len(mods),
                             !.pages = Append(@, page),
                             !.stop = FALSE ]
      IN Bind(Bind(a1, LAMBDA a : ProcessItems(ctx, eff, a, mods, 1)),
              LAMBDA a2 : IF a2.raised \/ a2.stop \/ Len(mods) = 0 THEN a2
                          ELSE Walk(ctx, eff, cat, a2, page + 1))

\* the locals of a pass over an open ledger; `classified`: what
\* _determine_action returned for each item, in order; `written`: the entries
\* the manual output wrote files for; `raised`: an exception is propagating;
\* `handle`: the ledger connection, "open" until store.close()
StartAcc(st) ==
    [ st |-> st, post_count |-> 0, dry_run_count |-> 0, actions |-> <<>>,
      classified |-> <<>>,
      sent |-> <<>>, max_first_ptime |-> NoneT, stop |-> FALSE,
      total_seen |-> 0, pages |-> <<>>, cutoff |-> NoneT,
      written |-> <<>>, raised |-> FALSE, handle |-> "open" ]

effective_cutoff(ctx, st) ==
    _max_iso(_resolve_first_ptime_cutoff(ctx.config, st, ctx.dry_run),
             _hard_stop_for_product(ctx.config))

\* a pass that persists the mark of the items it has seen when an exception
\* ends it too, the variant C30 is sensitive to
sync_mods_MarkOnException(ctx, st, cat) ==
    Bind(effective_cutoff(ctx, st), LAMBDA eff :
      Bind(Walk(ctx, eff, cat, [StartAcc(st) EXCEPT !.cutoff = eff],
                IF ctx.config.page >= 1 THEN ctx.config.page ELSE 1),
           LAMBDA a : IF a.max_first_ptime # NoneT /\ ~ ctx.dry_run
                        THEN [a EXCEPT !.st = set_meta(@, a.max_first_ptime)]
                      ELSE a))

\* a pass that, when no item gave it a mark, persists the instant it started at
\* as the mark, the variant C32 is sensitive to
sync_mods_MarkWhenNothingSeen(ctx, st, cat) ==
    Bind(effective_cutoff(ctx, st), LAMBDA eff :
      Bind(Walk(ctx, eff, cat, [StartAcc(st) EXCEPT !.cutoff = eff],
                IF ctx.config.page >= 1 THEN ctx.config.page ELSE 1),
           LAMBDA a : IF a.raised \/ ctx.dry_run THEN a
                      ELSE IF a.max_first_ptime # NoneT
                        THEN [a EXCEPT !.st = set_meta(@, a.max_first_ptime)]
                      ELSE [a EXCEPT !.st = set_meta(@, ctx.now)]))

\* a pass that persists the mark whether dry_run is set or not, the variant C14
\* is sensitive to
sync_mods_MarkInDryRun(ctx, st, cat) ==
    Bind(effective_cutoff(ctx, st), LAMBDA eff :
      Bind(Walk(ctx, eff, cat, [StartAcc(st) EXCEPT !.cutoff = eff],
                IF ctx.config.page >= 1 THEN ctx.config.page ELSE 1),
           LAMBDA a : IF a.raised THEN a
                      ELSE IF a.max_first_ptime # NoneT
                        THEN [a EXCEPT !.st = set_meta(@, a.max_first_ptime)]
                      ELSE a))

sync_mods(ctx, st, cat) ==
    Bind(effective_cutoff(ctx, st), LAMBDA eff :
      Bind(Walk(ctx, eff, cat, [StartAcc(st) EXCEPT !.cutoff = eff],
                IF ctx.config.page >= 1 THEN ctx.config.page ELSE 1),
           LAMBDA a : IF a.raised THEN a
                      ELSE IF a.max_first_ptime # NoneT /\ ~ ctx.dry_run
                        THEN [a EXCEPT !.st = set_meta(@, a.max_first_ptime)]
                      ELSE a))

\* the settings of one invocation; reddit_up / discord_up: whether the target
\* accepts what it is sent during this invocation.  As built here the invocation
\* has no manual output directory, its posting credentials and template files
\* are there, no catalog request fails and the wall clock stands still.
Ctx(page, post_new, post_updates, dry_run, max_posts, reddit, discord, reddit_up, discord_up, handler) ==
    [ config |-> Config(page, NoneT, discord),
      post_new |-> post_new, post_updates |-> post_updates,
      dry_run |-> dry_run, max_posts |-> max_posts,
      reddit |-> reddit, discord |-> discord,
      reddit_up |-> reddit_up, discord_up |-> discord_up,
      handler |-> handler, emit_eligible |-> FALSE,
      manual |-> FALSE, credentials |-> TRUE,
      post_template |-> TRUE, discord_template |-> TRUE,
      fetch_fails |-> 0, tick |-> 0,
      now |-> clock ]

\* a retry that passes over an entry whose last_posted_at is set (the marker
\* read as "delivered"), the variant C33 is sensitive to
RetryOne_SkipsMarked(ctx, acc, entry, target) ==
    IF ~ has_mod(acc.st, entry[1]) THEN acc
    ELSE IF get_mod(acc.st, entry[1]).last_posted_at # NoneT THEN acc
    ELSE IF ~ (IF target = "reddit" THEN ctx.post_template ELSE ctx.discord_template)
      THEN [acc EXCEPT !.raised = TRUE]
    ELSE IF ctx.dry_run THEN acc
    ELSE Attempt(ctx, acc, entry[1], entry[2], target,
                 IF target = "reddit" THEN ctx.reddit_up ELSE ctx.discord_up,
                 IF target = "reddit" THEN RemotePostId(acc.st)
                 ELSE _attempt_id(acc.st))

\* retry_failed_posts: one entry of a retry list; the body is rendered before
\* the dry-run test and outside the try of the attempt
RetryOne(ctx, acc, entry, target) ==
    IF ~ has_mod(acc.st, entry[1]) THEN acc
    ELSE IF ~ (IF target = "reddit" THEN ctx.post_template ELSE ctx.discord_template)
      THEN [acc EXCEPT !.raised = TRUE]
    ELSE IF ctx.dry_run THEN acc
    ELSE Attempt(ctx, acc, entry[1], entry[2], target,
                 IF target = "reddit" THEN ctx.reddit_up ELSE ctx.discord_up,
                 IF target = "reddit" THEN RemotePostId(acc.st)
                 ELSE _attempt_id(acc.st))

RECURSIVE RetryList(_, _, _, _, _)
RetryList(ctx, acc, entries, target, i) ==
    IF i > Len(entries) \/ acc.raised THEN acc
    ELSE Bind(RetryOne(ctx, acc, entries[i], target),
              LAMBDA a : RetryList(ctx, a, entries, target, i + 1))

\* the try block of retry_failed_posts; ctx.reddit / ctx.discord: the client
\* of the target was built
RetryBody(ctx, st) ==
    Bind(StartAcc(st), LAMBDA a0 :
      Bind(IF ctx.reddit
             THEN Bind(get_failed_posts(a0.st, "reddit"),
                       LAMBDA failed : RetryList(ctx, a0, failed, "reddit", 1))
           ELSE a0,
           LAMBDA a1 :
             IF a1.raised THEN a1
             ELSE IF ctx.discord
               THEN Bind(get_failed_posts(a1.st, "discord")
                           \o get_missing_discord_posts(a1.st),
                         LAMBDA retries : RetryList(ctx, a1, retries, "discord", 1))
             ELSE a1))

\* a retry that closes the ledger on its normal exit only, the variant C28 is
\* sensitive to
retry_failed_posts_CloseOnReturn(ctx, st) ==
    Bind(RetryBody(ctx, st), LAMBDA a :
      IF a.raised THEN a ELSE [a EXCEPT !.handle = "closed"])

\* retry_failed_posts: try: ... finally: store.close()
retry_failed_posts(ctx, st) ==
    Bind(RetryBody(ctx, st), LAMBDA a : [a EXCEPT !.handle = "closed"])

\* the try block of run: the posting client is built for a live run only and
\* raises ValueError without credentials; emit_eligible is bool(manual_output_dir)
RunBody(ctx, st, cat) ==
    IF ~ ctx.dry_run /\ ~ ctx.manual /\ ~ ctx.credentials
      THEN [StartAcc(st) EXCEPT !.raised = TRUE]
    ELSE sync_mods([ctx EXCEPT !.handler = TRUE, !.emit_eligible = ctx.manual], st, cat)

\* a run that closes the ledger on its normal exits only, the variant C28 is
\* sensitive to
run_CloseOnReturn(ctx, st, cat) ==
    Bind(RunBody(ctx, st, cat), LAMBDA a :
      IF a.raised THEN a ELSE [a EXCEPT !.handle = "closed"])

\* run: store = SQLiteStore(...); try: ... finally: store.close()
run(ctx, st, cat) ==
    Bind(RunBody(ctx, st, cat), LAMBDA a : [a EXCEPT !.handle = "closed"])

---------------------------------------------------------------------------
(* The state machine                                                       *)

HardStopT == Config(1, NoneT, FALSE).fallout4_hard_stop
OldT == HardStopT - 1       \* an instant before the hard stop
RecentT == HardStopT + 1    \* an instant after it
StartT == HardStopT + 2     \* the clock when the model starts

OldMod == MakeMod(1, OldT, OldT, TRUE, OldT)
RecentMod == MakeMod(2, RecentT, RecentT, TRUE, RecentT)

\* an entry first published at the hard stop, and an item of the same instant
\* that the catalog returns without a content_id
EdgeMod == MakeMod(1, HardStopT, HardStopT, TRUE, HardStopT)
NoIdMod == MakeMod(MissingId, HardStopT, HardStopT, TRUE, HardStopT)

InitCatalogs ==
    { <<>>, << OldMod >>, << RecentMod, OldMod >>, << RecentMod, NoIdMod, EdgeMod >> }

NoOp == [ op |-> "init", dry |-> FALSE, actions |-> <<>>, pages |-> <<>>,
          sent |-> <<>>, arg |-> <<>>, cutoff |-> NoneT ]

Init ==
    /\ store = EmptyStore
    /\ catalog \in InitCatalogs
    /\ clock = StartT
    /\ last = NoOp

\* the world: an author publishes a new item, which gets the next free id and is
\* the newest of the catalog
Publish(id, verified) ==
    /\ clock < MaxClock
    /\ id = Len(catalog) + 1
    /\ catalog' = << MakeMod(id, clock, clock, verified, clock) >> \o catalog
    /\ clock' = clock + 1
    /\ last' = [NoOp EXCEPT !.op = "publish"]
    /\ UNCHANGED store

\* the world: an author republishes an item (new content, new published instant)
Republish(i) ==
    /\ clock < MaxClock
    /\ i \in 1..Len(catalog)
    /\ catalog' = [ catalog EXCEPT ![i] =
                      [@ EXCEPT !.published_at = clock, !.updated_at = clock,
                                !.content = clock] ]
    /\ clock' = clock + 1
    /\ last' = [NoOp EXCEPT !.op = "republish"]
    /\ UNCHANGED store

PassStarts == clock < MaxClock /\ Len(store.posts) < MaxRows

Caps == { NoCap, 1 }
Pages == { 1, 2 }

\* main.py `run`: run(config, post_new, post_updates, dry_run, max_posts)
RunWith(ctx) ==
    /\ PassStarts
    /\ \E r \in { run(ctx, store, catalog) } :
          /\ store' = r.st
          /\ last' = [ op |-> "run", dry |-> ctx.dry_run, actions |-> r.actions,
                       pages |-> r.pages, sent |-> r.sent, arg |-> <<>>,
                       cutoff |-> r.cutoff ]
    /\ clock' = clock + 1
    /\ UNCHANGED catalog

RunDry ==
    \E page \in Pages, post_new \in BOOLEAN, post_updates \in BOOLEAN, cap \in Caps :
        RunWith(Ctx(page, post_new, post_updates, TRUE, cap, FALSE, FALSE,
                    FALSE, FALSE, TRUE))

RunLive ==
    \E page \in Pages, post_new \in BOOLEAN, post_updates \in BOOLEAN, cap \in Caps,
       discord \in BOOLEAN, reddit_up \in BOOLEAN, discord_up \in BOOLEAN :
        /\ (~ discord => ~ discord_up)
        /\ RunWith(Ctx(page, post_new, post_updates, FALSE, cap, TRUE, discord,
                       reddit_up, discord_up, TRUE))

\* main.py `fetch`: sync_mods with posting off and no handler
Fetch ==
    \E page \in Pages :
        /\ PassStarts
        /\ \E r \in { sync_mods(Ctx(page, FALSE, FALSE, FALSE, NoCap, FALSE, FALSE,
                                      FALSE, FALSE, FALSE), store, catalog) } :
              /\ store' = r.st
              /\ last' = [ op |-> "fetch", dry |-> FALSE, actions |-> r.actions,
                           pages |-> r.pages, sent |-> r.sent, arg |-> <<>>,
                       cutoff |-> r.cutoff ]
        /\ clock' = clock + 1
        /\ UNCHANGED catalog

\* main.py `retry`: retry_failed_posts(config, dry_run)
Retry ==
    \E dry_run \in BOOLEAN, reddit \in BOOLEAN, discord \in BOOLEAN,
       reddit_up \in BOOLEAN, discord_up \in BOOLEAN :
        /\ PassStarts
        /\ (dry_run \/ ~ reddit) => ~ reddit_up
        /\ (dry_run \/ ~ discord) => ~ discord_up
        /\ \E r \in { retry_failed_posts(Ctx(1, FALSE, FALSE, dry_run, NoCap, reddit,
                                               discord, reddit_up, discord_up, TRUE),
                                           store) } :
              /\ store' = r.st
              /\ last' = [ op |-> "retry", dry |-> dry_run, actions |-> <<>>,
                           pages |-> <<>>, sent |-> r.sent, arg |-> <<>>,
                           cutoff |-> NoneT ]
        /\ clock' = clock + 1
        /\ UNCHANGED catalog

Next ==
    \/ \E id \in ModIds, verified \in BOOLEAN : Publish(id, verified)
    \/ \E i \in 1..NumMods : Republish(i)
    \/ RunDry
    \/ RunLive
    \/ Fetch
    \/ Retry

Spec == Init /\ [][Next]_vars

---------------------------------------------------------------------------
(* The ledger called directly, with arguments from small sets              *)

MaxCalls == 2       \* calls of the ledger in one behaviour

\* two versions of each entry: verified as first published, and republished
\* by an author who is no longer verified
ApiMods ==
    { MakeMod(id, OldT, pub, pub = OldT, pub) : id \in ModIds, pub \in {OldT, RecentT} }

ApiPostIds == { << "t3", 1 >>, << "uuid", 1 >> }

\* an empty ledger, or one that has seen entry 1 before the clock started
InitStore ==
    /\ store \in { EmptyStore }
                 \cup { upsert_mod(EmptyStore, m, RecentT, compute_mod_hash(m)) :
                          m \in { x \in ApiMods : x.mod_id = 1 } }
    /\ catalog = <<>>
    /\ clock = StartT
    /\ last = NoOp

CallStarts == clock < StartT + MaxCalls

ApiUpsert(mod) ==
    /\ CallStarts
    /\ store' = upsert_mod(store, mod, clock, compute_mod_hash(mod))
    /\ last' = [NoOp EXCEPT !.op = "upsert_mod", !.arg = [ mod |-> mod, at |-> clock ]]
    /\ clock' = clock + 1
    /\ UNCHANGED catalog

ApiMarkPosted(mod_id, post_type, post_id, target, success) ==
    /\ CallStarts
    /\ store' = mark_posted(store, mod_id, post_type, post_id, clock, target, success,
                            IF success THEN "" ELSE "exc")
    /\ last' = [NoOp EXCEPT !.op = "mark_posted",
                  !.arg = [ mod_id |-> mod_id, post_type |-> post_type,
                            post_id |-> post_id, posted_at |-> clock,
                            target |-> target, success |-> success,
                            raised |-> ~ PostAccepted(store, mod_id, post_type, post_id) ]]
    /\ clock' = clock + 1
    /\ UNCHANGED catalog

ApiSetMeta(value) ==
    /\ CallStarts
    /\ store' = set_meta(store, value)
    /\ last' = [NoOp EXCEPT !.op = "set_meta", !.arg = [ value |-> value ]]
    /\ clock' = clock + 1
    /\ UNCHANGED catalog

NextStore ==
    \/ \E mod \in ApiMods : ApiUpsert(mod)
    \/ \E mod_id \in ModIds, post_type \in {"new", "update", "edit"},
          post_id \in ApiPostIds, success \in BOOLEAN :
            ApiMarkPosted(mod_id, post_type, post_id,
                          IF post_id[1] = "t3" THEN "reddit" ELSE "discord", success)
    \/ \E value \in {RecentT} : ApiSetMeta(value)

SpecStore == InitStore /\ [][NextStore]_vars

---------------------------------------------------------------------------
(* Properties                                                              *)

IsPrefix(a, b) == Len(a) <= Len(b) /\ \A i \in 1..Len(a) : a[i] = b[i]

Targets == { "reddit", "discord" }

\* the step was a sync pass (run or fetch) that was not a dry run
LivePassStep == last'.op \in { "run", "fetch" } /\ ~ last'.dry

\* C1: across non-dry-run sync passes the persisted high-water mark never
\* decreases (a pass changes it only to a strictly later instant).
C1_MarkNeverDecreases ==
    [][ LivePassStep => store'.meta >= store.meta ]_vars

\* C2: a run in dry-run mode mutates nothing in the ledger (no upsert, no
\* attempt row, no scalar write) and delivers nothing.
C2_DryRunLeavesLedger ==
    [][ (last'.op = "run" /\ last'.dry) => (store' = store /\ last'.sent = <<>>) ]_vars

\* C3: from one ledger state, one catalog and one set of flags, a dry-run pass
\* emits the same sequence of (action, entry) classifications as a live pass.
C3_DryRunSameClassifications ==
    \A page \in Pages, post_new \in BOOLEAN, post_updates \in BOOLEAN, cap \in Caps :
        sync_mods(Ctx(page, post_new, post_updates, TRUE, cap, FALSE, FALSE,
                      FALSE, FALSE, TRUE), store, catalog).actions
        = sync_mods(Ctx(page, post_new, post_updates, FALSE, cap, TRUE, FALSE,
                        TRUE, FALSE, TRUE), store, catalog).actions

\* the index of the latest attempt row of a pair on a target (0: none)
LatestRow(st, key, target) ==
    LET hits == { i \in 1..Len(st.posts) :
                    /\ st.posts[i].mod_id = key[1]
                    /\ st.posts[i].post_type = key[2]
                    /\ st.posts[i].target = target }
    IN IF hits = {} THEN 0 ELSE CHOOSE i \in hits : \A j \in hits : j <= i

\* C4: failed_deliveries(target) lists each pair at most once, and only pairs
\* whose latest attempt on the target failed: a pair with a later successful
\* attempt is no longer listed.
C4_FailedUntilSucceeded ==
    \A target \in Targets :
        LET failed == get_failed_posts(store, target)
        IN /\ \A i, j \in 1..Len(failed) : failed[i] = failed[j] => i = j
           /\ \A i \in 1..Len(failed) :
                 LET k == LatestRow(store, failed[i], target)
                 IN k # 0 /\ store.posts[k].success = 0

HasSuccess(st, mod_id, post_type, target) ==
    \E i \in 1..Len(st.posts) :
        /\ st.posts[i].mod_id = mod_id
        /\ st.posts[i].post_type = post_type
        /\ st.posts[i].target = target
        /\ st.posts[i].success = 1

SeqToSet(q) == { q[i] : i \in 1..Len(q) }

\* C5: missing_secondary_deliveries() is exactly the entries posted on the
\* posting API with no successful 'new' delivery on the webhook; an entry with
\* failed attempts only is not among them.
C5_MissingIsPostedOnPrimary ==
    SeqToSet(get_missing_discord_posts(store))
    = { << id, "new" >> :
          id \in { k \in DOMAIN store.mods :
                     /\ HasSuccess(store, k, "new", "reddit")
                     /\ ~ HasSuccess(store, k, "new", "discord") } }

\* the rows a pass appended are its remote attempts, in order, each with the
\* outcome the target gave
AppendedMatchSent ==
    /\ IsPrefix(store.posts, store'.posts)
    /\ Len(store'.posts) = Len(store.posts) + Len(last'.sent)
    /\ \A k \in 1..Len(last'.sent) :
          LET row == store'.posts[Len(store.posts) + k]
              att == last'.sent[k]
          IN /\ row.mod_id = att.mod_id
             /\ row.post_type = att.post_type
             /\ row.target = att.target
             /\ row.success = int(att.ok)

\* C6: a failed attempt row for a target puts its pair in
\* failed_deliveries(target); a successful replay by the retry pass appends a
\* new success row for that target and leaves every older row as it was.
C6_FailedListedRetryAppends ==
    /\ [] ( \A i \in 1..Len(store.posts) :
              store.posts[i].success = 0 =>
                << store.posts[i].mod_id, store.posts[i].post_type >>
                   \in SeqToSet(get_failed_posts(store, store.posts[i].target)) )
    /\ [][ last'.op = "retry" => AppendedMatchSent ]_vars

C6_Witness ==
    /\ last.op = "retry"
    /\ \E i, j \in 1..Len(store.posts) :
          /\ i < j
          /\ store.posts[i].success = 0 /\ store.posts[j].success = 1
          /\ store.posts[i].mod_id = store.posts[j].mod_id
          /\ store.posts[i].post_type = store.posts[j].post_type
          /\ store.posts[i].target = store.posts[j].target
          /\ last.sent # <<>>

\* C7: the attempt log is append-only across run and retry passes: every row
\* of a state is the same row in every later state.
C7_LogAppendOnly ==
    [][ IsPrefix(store.posts, store'.posts) ]_vars

C7_Witness ==
    /\ last.op = "retry"
    /\ Len(store.posts) >= 2
    /\ Len(last.sent) < Len(store.posts)

\* C8: an accepted record_delivery sets last_posted_at (action new) or
\* last_update_posted_at (action update) to the attempt's posted_at, success
\* or failure alike, and leaves the other marker as it was.
C8_MarkerFollowsAttempt ==
    [][ (last'.op = "mark_posted" /\ Len(store'.posts) = Len(store.posts) + 1) =>
          LET a == last'.arg
              old == store.mods[a.mod_id]
              new == store'.mods[a.mod_id]
          IN IF a.post_type = "new"
               THEN /\ new.last_posted_at = a.posted_at
                    /\ new.last_update_posted_at = old.last_update_posted_at
             ELSE /\ new.last_update_posted_at = a.posted_at
                  /\ new.last_posted_at = old.last_posted_at ]_vars

C8_Witness ==
    /\ last.op = "mark_posted"
    /\ ~ last.arg.raised
    /\ ~ last.arg.success
    /\ last.arg.post_type = "update"
    /\ store.mods[last.arg.mod_id].last_update_posted_at = last.arg.posted_at
    /\ store.mods[last.arg.mod_id].last_posted_at \notin { NoneT, last.arg.posted_at }

\* C9: over the upserts of one entry_id, first_seen_at keeps the value of the
\* first upsert; last_seen_at, last_seen_ptime, last_known_hash and every
\* mirrored Entry field are those of the most recent upsert.
C9_UpsertFirstAndLastWins ==
    [][ last'.op = "upsert_mod" =>
          LET mod == last'.arg.mod
              id == mod.mod_id
              row == store'.mods[id]
          IN /\ row.first_seen_at =
                   ( IF id \in DOMAIN store.mods THEN store.mods[id].first_seen_at
                     ELSE last'.arg.at )
             /\ row.last_seen_at = last'.arg.at
             /\ row.last_seen_ptime = mod.published_at
             /\ row.last_known_hash = compute_mod_hash(mod)
             /\ get_mod_model(store', id) = mod ]_vars

C9_Witness ==
    /\ last.op = "upsert_mod"
    /\ LET row == store.mods[last.arg.mod.mod_id]
       IN /\ row.first_seen_at < row.last_seen_at
          /\ row.last_seen_at = last.arg.at
          /\ row.published_at = RecentT

\* C10: no two attempt rows share (entry_id, action_kind, attempt_id).
C10_AttemptKeyUnique ==
    \A i, j \in 1..Len(store.posts) :
        ( /\ store.posts[i].mod_id = store.posts[j].mod_id
          /\ store.posts[i].post_type = store.posts[j].post_type
          /\ store.posts[i].post_id = store.posts[j].post_id ) => i = j

C10_Witness ==
    /\ last.op = "mark_posted"
    /\ last.arg.raised
    /\ \E i \in 1..Len(store.posts) :
          /\ store.posts[i].mod_id = last.arg.mod_id
          /\ store.posts[i].post_type = last.arg.post_type
          /\ store.posts[i].post_id = last.arg.post_id

\* the step was a sync pass: main's run or fetch
SyncStep == last'.op \in { "run", "fetch" }

\* the instant of an item the walker compares with the cutoff: first-published,
\* else published; NoneT when neither is a valid instant
ItemInstant(mod) ==
    IF mod.first_published_at > 0 THEN mod.first_published_at
    ELSE IF mod.published_at > 0 THEN mod.published_at
    ELSE NoneT

AtOrBeforeCutoff(mod, cutoff) ==
    ItemInstant(mod) # NoneT /\ cutoff > 0 /\ ItemInstant(mod) <= cutoff

\* page `page` of the catalog is empty or holds an item with an id at or before
\* the cutoff
PageStops(page, cutoff) ==
    LET mods == fetch_mods(catalog, page)
    IN \/ Len(mods) = 0
       \/ \E i \in 1..Len(mods) :
             mods[i].mod_id # MissingId /\ AtOrBeforeCutoff(mods[i], cutoff)

\* page `page` of the catalog is empty or holds any item at or before the cutoff
PageStopsOnAnyItem(page, cutoff) ==
    LET mods == fetch_mods(catalog, page)
    IN \/ Len(mods) = 0
       \/ \E i \in 1..Len(mods) : AtOrBeforeCutoff(mods[i], cutoff)

\* C11 (as stated): a sync pass fetches pages in increasing order, one at a
\* time, and fetches no page after one that is empty or holds an item at or
\* before the effective cutoff.
C11_StopsOnAnyItem ==
    [][ SyncStep =>
          LET pages == last'.pages
          IN /\ \A i \in 1..(Len(pages) - 1) : pages[i + 1] = pages[i] + 1
             /\ \A i \in 1..Len(pages) :
                   PageStopsOnAnyItem(pages[i], last'.cutoff) => i = Len(pages) ]_vars

\* C11 (amended): a sync pass fetches pages in increasing order, one at a time,
\* and fetches no page after one that is empty or holds an item with an id at
\* or before the effective cutoff; an item without an id is skipped before the
\* cutoff test and stops nothing.
C11_WalkerStopsAtCutoff ==
    [][ SyncStep =>
          LET pages == last'.pages
          IN /\ \A i \in 1..(Len(pages) - 1) : pages[i + 1] = pages[i] + 1
             /\ \A i \in 1..Len(pages) :
                   PageStops(pages[i], last'.cutoff) => i = Len(pages) ]_vars

\* a pass that walked two pages and stopped on an item of the second
C11_Witness ==
    /\ last.op \in { "run", "fetch" }
    /\ Len(last.pages) >= 2
    /\ Len(fetch_mods(catalog, last.pages[Len(last.pages)])) > 0
    /\ PageStops(last.pages[Len(last.pages)], last.cutoff)

\* the items with an id on the pages a pass fetched, in catalog order (the
\* pages are consecutive)
WalkedItems(pages) ==
    IF Len(pages) = 0 THEN << >>
    ELSE SelectSeq(SubSeq(catalog, (pages[1] - 1) * PageSize + 1,
                          Min(pages[Len(pages)] * PageSize, Len(catalog))),
                   LAMBDA m : m.mod_id # MissingId)

\* the classifications of `items` against ledger `st`, those of action none
\* left out
Classified(st, items, post_new, post_updates) ==
    LET all == [ i \in 1..Len(items) |->
                   << _determine_action(st, items[i], compute_mod_hash(items[i]),
                                        post_new, post_updates, Config(1, NoneT, FALSE)),
                      items[i].mod_id >> ]
    IN SelectSeq(all, LAMBDA a : a[1] # "none")

\* C12: every item with an id on a fetched page, the item that triggers the
\* stop and the items after it on that page included, is classified and
\* upserted by the pass.
C12_StopPageFullyProcessed ==
    \A page \in Pages, post_new \in BOOLEAN, post_updates \in BOOLEAN, dry_run \in BOOLEAN :
        LET r == sync_mods(Ctx(page, post_new, post_updates, dry_run, NoCap,
                               ~ dry_run, FALSE, ~ dry_run, FALSE, TRUE), store, catalog)
            items == WalkedItems(r.pages)
        IN /\ r.actions = Classified(store, items, post_new, post_updates)
           /\ \A i \in 1..Len(items) :
                 /\ has_mod(r.st, items[i].mod_id)
                 /\ get_mod(r.st, items[i].mod_id).last_seen_at = clock
                 /\ get_mod_model(r.st, items[i].mod_id) = items[i]

\* a run stopped by the first item of a page, and the item after it on that
\* page was classified update and upserted by that run
C12_Witness ==
    /\ last.op = "run"
    /\ Len(last.pages) >= 1
    /\ LET mods == fetch_mods(catalog, last.pages[Len(last.pages)])
       IN /\ Len(mods) >= 2
          /\ mods[1].mod_id # MissingId
          /\ AtOrBeforeCutoff(mods[1], last.cutoff)
          /\ mods[2].mod_id # MissingId
          /\ << "update", mods[2].mod_id >> \in SeqToSet(last.actions)
          /\ has_mod(store, mods[2].mod_id)
          /\ get_mod(store, mods[2].mod_id).last_seen_at = clock - 1

\* the later of two optional instants; the one that is set when only one is
Later(a, b) ==
    IF a = NoneT THEN b ELSE IF b = NoneT THEN a ELSE IF a >= b THEN a ELSE b

\* C13: the effective cutoff a sync pass uses is the later of the persisted
\* high-water mark (no synthetic override is configured in these passes) and
\* the product's hard stop.
C13_CutoffIsLaterOfMarkAndHardStop ==
    [][ SyncStep => last'.cutoff = Later(store.meta, HardStopT) ]_vars

\* C14: a sync pass with dry_run true leaves the persisted high-water mark as
\* it was, whatever items it observes.
C14_DryRunLeavesMark ==
    [][ (SyncStep /\ last'.dry) => store'.meta = store.meta ]_vars

\* a dry run that walked an item first published after the persisted mark
C14_Witness ==
    /\ last.op = "run"
    /\ last.dry
    /\ store.meta # NoneT
    /\ \E i \in 1..Len(WalkedItems(last.pages)) :
          WalkedItems(last.pages)[i].first_published_at > store.meta

---------------------------------------------------------------------------
(* Classification and eligibility called directly, with entries, ledger   *)
(* records and policies from small sets                                    *)

Authors == { "someone", "BethesdaGameStudios", "bethesdagamestudios" }

PriceLists == { << >>, << "pos" >>, << "zero" >>, << "bad", "none" >>, << "zero", "pos" >> }

\* an entry of entry_id 1 with every field the decision reads
PolicyMod(product, fp, pub, upd, author, verified, prices) ==
    [ MakeMod(1, fp, pub, verified, pub) EXCEPT
        !.product = product, !.updated_at = upd,
        !.author_displayname = author, !.prices = prices ]

PolicyMods ==
    { PolicyMod(product, fp, pub, upd, author, verified, prices) :
        product \in { "FALLOUT4", "SKYRIM" },
        fp \in { NoneT, BadT, OldT, HardStopT, RecentT },
        pub \in { NoneT, BadT, OldT, RecentT },
        upd \in { NoneT, StartT },
        author \in Authors, verified \in BOOLEAN, prices \in PriceLists }

\* the policy of config.py, one whose hard stops do not parse or are not set,
\* and one with a later studio ignore-before instant
Policies ==
    { Config(1, NoneT, FALSE),
      [ Config(1, NoneT, FALSE) EXCEPT !.fallout4_hard_stop = BadT,
                                        !.skyrim_hard_stop = NoneT ],
      [ Config(1, NoneT, FALSE) EXCEPT !.bgs_ignore_before = RecentT ] }

\* the ledger after entry 1 was upserted as `mod`, then posted as new at
\* `posted` and as update at `update_posted` (NoneT: not posted)
Recorded(mod, posted, update_posted) ==
    LET st0 == upsert_mod(EmptyStore, mod, OldT, compute_mod_hash(mod))
        st1 == IF posted = NoneT THEN st0
               ELSE mark_posted(st0, mod.mod_id, "new", _attempt_id(st0), posted,
                                "reddit", FALSE, "exc")
    IN IF update_posted = NoneT THEN st1
       ELSE mark_posted(st1, mod.mod_id, "update", _attempt_id(st1), update_posted,
                        "reddit", FALSE, "exc")

\* the record is of the entry as it is now, or of an earlier content of it
InitClassify ==
    /\ \E mod \in PolicyMods :
          /\ catalog = << mod >>
          /\ store \in { EmptyStore }
                \cup { Recorded(m, posted, update_posted) :
                         m \in { mod, [ mod EXCEPT !.content = NoneT ] },
                         posted \in { NoneT, HardStopT },
                         update_posted \in { NoneT, RecentT } }
    /\ clock = StartT
    /\ last = NoOp

\* sync_mods: action = _determine_action(existing, mod, mod_hash, post_new,
\* post_updates, config)
Classify(post_new, post_updates, config) ==
    /\ last.op = "init"
    /\ \E mod \in { catalog[1] } :
         \E result \in { _determine_action(store, mod, compute_mod_hash(mod),
                                            post_new, post_updates, config) } :
            last' = [ NoOp EXCEPT !.op = "classify",
                        !.arg = [ mod |-> mod, post_new |-> post_new,
                                  post_updates |-> post_updates, config |-> config,
                                  result |-> result ] ]
    /\ UNCHANGED << store, catalog, clock >>

\* sync_mods: eligible = _is_new_creation(mod, config)
IsNewCreation(config) ==
    /\ last.op = "init"
    /\ \E mod \in { catalog[1] } :
          last' = [ NoOp EXCEPT !.op = "is_new_creation",
                      !.arg = [ mod |-> mod, config |-> config,
                                result |-> _is_new_creation(mod, config) ] ]
    /\ UNCHANGED << store, catalog, clock >>

NextClassify ==
    \/ \E post_new \in BOOLEAN, post_updates \in BOOLEAN, config \in Policies :
          Classify(post_new, post_updates, config)
    \/ \E config \in Policies : IsNewCreation(config)

SpecClassify == InitClassify /\ [][NextClassify]_vars

---------------------------------------------------------------------------
(* Properties of classification and eligibility                            *)

IsStudioAccount(author) == author \in { "BethesdaGameStudios", "bethesdagamestudios" }

HardStopOf(mod, policy) ==
    IF mod.product = "FALLOUT4" THEN policy.fallout4_hard_stop
    ELSE IF mod.product = "SKYRIM" THEN policy.skyrim_hard_stop
    ELSE policy.starfield_hard_stop

\* instant >= limit, passing when either of them is not a valid instant
NotBefore(instant, limit) == instant <= 0 \/ limit <= 0 \/ instant >= limit

HardStopRule(mod, policy) == NotBefore(ItemInstant(mod), HardStopOf(mod, policy))

StudioIgnoreRule(mod, policy) ==
    IsStudioAccount(mod.author_displayname)
        => NotBefore(ItemInstant(mod), policy.bgs_ignore_before)

VerifiedRule(mod) == mod.author_verified

PricingRule(mod) ==
    \/ \E i \in 1..Len(mod.prices) : mod.prices[i] = "pos"
    \/ IsStudioAccount(mod.author_displayname)

Eligible(mod, policy) ==
    /\ HardStopRule(mod, policy)
    /\ StudioIgnoreRule(mod, policy)
    /\ VerifiedRule(mod)
    /\ PricingRule(mod)

\* C15: with no ledger record of the entry, classify returns new exactly when
\* post_new is set and the entry is eligible, and none otherwise; it never
\* returns update.
C15_NoRecordNewOrNone ==
    (last.op = "classify" /\ ~ has_mod(store, last.arg.mod.mod_id)) =>
        last.arg.result =
            ( IF last.arg.post_new /\ Eligible(last.arg.mod, last.arg.config)
              THEN "new" ELSE "none" )

C15_Witness ==
    /\ last.op = "classify"
    /\ ~ has_mod(store, last.arg.mod.mod_id)
    /\ last.arg.post_updates
    /\ last.arg.result = "new"

\* the record's last-update-post instant, else its last-post instant
RecordInstant(row) ==
    IF row.last_update_posted_at > 0 THEN row.last_update_posted_at
    ELSE IF row.last_posted_at > 0 THEN row.last_posted_at
    ELSE NoneT

\* the entry's latest publish instant: published, else updated
LatestPublishInstant(mod) ==
    IF mod.published_at > 0 THEN mod.published_at
    ELSE IF mod.updated_at > 0 THEN mod.updated_at
    ELSE NoneT

\* an update is due for the entry of instant `instant` against record `row`
UpdateDue(instant, row, mod) ==
    IF instant # NoneT /\ RecordInstant(row) # NoneT THEN instant > RecordInstant(row)
    ELSE IF instant # NoneT THEN TRUE
    ELSE compute_mod_hash(mod) # row.last_known_hash

\* C16 (as stated): with a ledger record, classify returns update exactly when
\* post_updates is set and an update is due, the entry's instant being its
\* first-published instant, else its published instant.
C16_DueByFirstPublished ==
    (last.op = "classify" /\ has_mod(store, last.arg.mod.mod_id)) =>
        ( last.arg.result = "update"
          <=> ( /\ last.arg.post_updates
                /\ UpdateDue(ItemInstant(last.arg.mod),
                             get_mod(store, last.arg.mod.mod_id), last.arg.mod) ) )

\* C16 (amended): with a ledger record, classify returns update exactly when
\* post_updates is set and an update is due, the entry's instant being its
\* published instant, else its updated instant; it returns none otherwise.
C16_DueByLatestPublish ==
    (last.op = "classify" /\ has_mod(store, last.arg.mod.mod_id)) =>
        last.arg.result =
            ( IF /\ last.arg.post_updates
                 /\ UpdateDue(LatestPublishInstant(last.arg.mod),
                              get_mod(store, last.arg.mod.mod_id), last.arg.mod)
              THEN "update" ELSE "none" )

\* an entry republished after its last post, first published before it
C16_Witness ==
    /\ last.op = "classify"
    /\ has_mod(store, last.arg.mod.mod_id)
    /\ last.arg.result = "update"
    /\ RecordInstant(get_mod(store, last.arg.mod.mod_id)) # NoneT
    /\ last.arg.mod.published_at > RecordInstant(get_mod(store, last.arg.mod.mod_id))
    /\ last.arg.mod.first_published_at > 0
    /\ last.arg.mod.first_published_at < RecordInstant(get_mod(store, last.arg.mod.mod_id))

\* C17: is_new_creation(entry, policy) is true exactly when the hard-stop
\* rule, the studio-ignore rule, the verified-author rule and the pricing rule
\* (a positive price, or the studio account) all hold.
C17_EligibleIffAllRules ==
    last.op = "is_new_creation" =>
        ( last.arg.result <=> Eligible(last.arg.mod, last.arg.config) )

\* a studio entry without a paid price, first published at the ignore-before
\* instant, found eligible
C17_Witness ==
    /\ last.op = "is_new_creation"
    /\ last.arg.result
    /\ last.arg.mod.author_displayname = "BethesdaGameStudios"
    /\ last.arg.mod.prices = << "zero" >>
    /\ ItemInstant(last.arg.mod) = last.arg.config.bgs_ignore_before

\* C18 (as stated): an entry with an empty price list is eligible when its
\* author is the studio account and not eligible when it is any other account.
C18_EmptyPricesStudioOnly ==
    (last.op = "is_new_creation" /\ last.arg.mod.prices = << >>) =>
        ( last.arg.result <=> IsStudioAccount(last.arg.mod.author_displayname) )

\* C18 (amended): an entry with an empty price list that passes the hard-stop,
\* studio-ignore and verified-author rules is eligible when its author is the
\* studio account; with any other author it is not eligible.
C18_EmptyPricesStudioBypass ==
    (last.op = "is_new_creation" /\ last.arg.mod.prices = << >>) =>
        /\ ( IsStudioAccount(last.arg.mod.author_displayname)
             /\ HardStopRule(last.arg.mod, last.arg.config)
             /\ StudioIgnoreRule(last.arg.mod, last.arg.config)
             /\ VerifiedRule(last.arg.mod) ) => last.arg.result
        /\ ~ IsStudioAccount(last.arg.mod.author_displayname) => ~ last.arg.result

C18_Witness ==
    /\ last.op = "is_new_creation"
    /\ last.arg.mod.prices = << >>
    /\ IsStudioAccount(last.arg.mod.author_displayname)
    /\ last.arg.result

---------------------------------------------------------------------------
(* Properties of delivery in a live run                                    *)

\* ledger `after` is ledger `before` plus one attempt row for each remote
\* attempt of `sent`, in order, with the outcome the target gave
RowsMatchSent(before, after, sent) ==
    /\ IsPrefix(before.posts, after.posts)
    /\ Len(after.posts) = Len(before.posts) + Len(sent)
    /\ \A k \in 1..Len(sent) :
          LET row == after.posts[Len(before.posts) + k]
          IN /\ row.mod_id = sent[k].mod_id
             /\ row.post_type = sent[k].post_type
             /\ row.target = sent[k].target
             /\ row.success = int(sent[k].ok)

\* a live run with both targets configured, from the current ledger and catalog
LiveRun(page, cap, reddit_up, discord_up) ==
    sync_mods(Ctx(page, TRUE, TRUE, FALSE, cap, TRUE, TRUE, reddit_up, discord_up, TRUE),
              store, catalog)

NewEntries(actions) ==
    LET news == SelectSeq(actions, LAMBDA a : a[1] = "new")
    IN [ i \in 1..Len(news) |-> news[i][2] ]

\* the entries of the attempts of `sent` on `target`
AttemptedOn(sent, target) ==
    LET hits == SelectSeq(sent, LAMBDA a : a.target = target)
    IN [ i \in 1..Len(hits) |-> hits[i].mod_id ]

---------------------------------------------------------------------------
(* run and retry_failed_posts called once, on ledgers and catalogs from    *)
(* small sets, with every setting of the invocation                        *)

\* an entry of an author who is not verified
UnverifiedMod == MakeMod(1, RecentT, RecentT, FALSE, RecentT)

RunCatalogs ==
    { <<>>, << RecentMod, OldMod >>, << RecentMod, UnverifiedMod >>,
      << RecentMod, NoIdMod, EdgeMod >>, << NoIdMod, RecentMod, EdgeMod >> }

\* the settings of a pass that started at RecentT, before the clock of the model
Earlier(ctx) == [ ctx EXCEPT !.now = RecentT ]

\* the ledgers a catalog can be met with: empty; after a fetch saw the catalog
\* from its first or from its second page on; after a live run on it whose
\* posts failed and whose webhook messages went out, or whose posts went out
\* and whose webhook messages failed
RunLedgers(cat) ==
    { EmptyStore,
      sync_mods(Earlier(Ctx(1, FALSE, FALSE, FALSE, NoCap, FALSE, FALSE,
                            FALSE, FALSE, FALSE)), EmptyStore, cat).st,
      sync_mods(Earlier(Ctx(2, FALSE, FALSE, FALSE, NoCap, FALSE, FALSE,
                            FALSE, FALSE, FALSE)), EmptyStore, cat).st,
      run(Earlier(Ctx(1, TRUE, TRUE, FALSE, NoCap, TRUE, TRUE, FALSE, TRUE, TRUE)),
          EmptyStore, cat).st,
      run(Earlier(Ctx(1, TRUE, TRUE, FALSE, NoCap, TRUE, TRUE, TRUE, FALSE, TRUE)),
          EmptyStore, cat).st }

InitRun ==
    /\ clock = StartT
    /\ catalog \in RunCatalogs
    /\ store \in RunLedgers(catalog)
    /\ last = NoOp

RunCaps == { NoCap, 0, 1, 2 }

\* what the invocation was given and how it ended
Outcome(ctx, before, r) ==
    [ ctx |-> ctx, before |-> before, raised |-> r.raised, handle |-> r.handle,
      written |-> r.written, post_count |-> r.post_count,
      total_seen |-> r.total_seen ]

\* main.py `run`, once
RunOnce(ctx) ==
    /\ last.op = "init"
    /\ \E r \in { run(ctx, store, catalog) } :
          /\ store' = r.st
          /\ last' = [ op |-> "run", dry |-> ctx.dry_run, actions |-> r.actions,
                       pages |-> r.pages, sent |-> r.sent,
                       arg |-> Outcome(ctx, store, r), cutoff |-> r.cutoff ]
    /\ clock' = clock + 1
    /\ UNCHANGED catalog

\* a live run: posting credentials and templates are there
RunLiveOnce ==
    \E page \in Pages, post_new \in BOOLEAN, post_updates \in BOOLEAN, cap \in RunCaps,
       discord \in BOOLEAN, reddit_up \in BOOLEAN, discord_up \in BOOLEAN,
       tick \in { 0, 1 } :
        /\ (~ discord => ~ discord_up)
        /\ RunOnce([ Ctx(page, post_new, post_updates, FALSE, cap, TRUE, discord,
                         reddit_up, discord_up, TRUE) EXCEPT !.tick = tick ])

\* --dry-run
RunDryOnce ==
    \E page \in Pages, post_new \in BOOLEAN, post_updates \in BOOLEAN, cap \in RunCaps :
        RunOnce(Ctx(page, post_new, post_updates, TRUE, cap, FALSE, FALSE,
                    FALSE, FALSE, TRUE))

\* --manual-output-dir, with or without --dry-run
RunManualOnce ==
    \E page \in Pages, post_new \in BOOLEAN, post_updates \in BOOLEAN, cap \in RunCaps,
       dry_run \in BOOLEAN :
        RunOnce([ Ctx(page, post_new, post_updates, dry_run, cap, FALSE, FALSE,
                      FALSE, FALSE, TRUE) EXCEPT !.manual = TRUE ])

Modes == { "live", "dry", "manual" }

\* the settings of a run in mode `mode` whose targets accept what they are sent
ModeCtx(mode, page, discord) ==
    [ Ctx(page, TRUE, TRUE, mode = "dry", NoCap, mode = "live",
          discord /\ mode = "live", mode = "live", discord /\ mode = "live", TRUE)
      EXCEPT !.manual = (mode = "manual") ]

\* a run without posting credentials, or with a template file that is not there
RunMisconfigured ==
    \E missing \in { "credentials", "post_template", "discord_template" },
       mode \in Modes, page \in Pages, discord \in BOOLEAN :
        RunOnce([ ModeCtx(mode, page, discord) EXCEPT
                    !.credentials = (missing # "credentials"),
                    !.post_template = (missing # "post_template"),
                    !.discord_template = (missing # "discord_template") ])

\* a run whose first or second catalog request raises
RunFetchRaises ==
    \E fetch_fails \in { 1, 2 }, mode \in Modes, page \in Pages :
        RunOnce([ ModeCtx(mode, page, TRUE) EXCEPT !.fetch_fails = fetch_fails ])

\* main.py `retry`, once
RetryOnce ==
    \E dry_run \in BOOLEAN, reddit \in BOOLEAN, discord \in BOOLEAN,
       reddit_up \in BOOLEAN, discord_up \in BOOLEAN,
       post_template \in BOOLEAN, discord_template \in BOOLEAN :
        /\ last.op = "init"
        /\ (dry_run \/ ~ reddit) => ~ reddit_up
        /\ (dry_run \/ ~ discord) => ~ discord_up
        /\ \E ctx \in { [ Ctx(1, FALSE, FALSE, dry_run, NoCap, reddit, discord,
                              reddit_up, discord_up, TRUE)
                          EXCEPT !.post_template = post_template,
                                 !.discord_template = discord_template ] } :
             \E r \in { retry_failed_posts(ctx, store) } :
                /\ store' = r.st
                /\ last' = [ op |-> "retry", dry |-> dry_run, actions |-> <<>>,
                             pages |-> <<>>, sent |-> r.sent,
                             arg |-> Outcome(ctx, store, r), cutoff |-> NoneT ]
        /\ clock' = clock + 1
        /\ UNCHANGED catalog

NextRun ==
    \/ RunLiveOnce
    \/ RunDryOnce
    \/ RunManualOnce
    \/ RunMisconfigured
    \/ RunFetchRaises
    \/ RetryOnce

SpecRun == InitRun /\ [][NextRun]_vars

---------------------------------------------------------------------------
(* Properties of one invocation                                            *)

\* the invocation was a run that is neither a dry run nor a manual output, with
\* credentials, templates and an answering catalog
WasLiveRun ==
    /\ last.op = "run"
    /\ ~ last.arg.ctx.dry_run /\ ~ last.arg.ctx.manual
    /\ last.arg.ctx.credentials
    /\ last.arg.ctx.post_template /\ last.arg.ctx.discord_template
    /\ last.arg.ctx.fetch_fails = 0

\* ... with both targets configured and both accepting what they are sent
WasLiveRunBothUp ==
    /\ WasLiveRun
    /\ last.arg.ctx.discord
    /\ last.arg.ctx.reddit_up /\ last.arg.ctx.discord_up

\* the attempt rows the invocation appended for entry `id`, in order
AppendedRows(id) ==
    SelectSeq(SubSeq(store.posts, Len(last.arg.before.posts) + 1, Len(store.posts)),
              LAMBDA row : row.mod_id = id)

\* the entries the invocation classified as `action`
EntriesOf(action) ==
    { last.actions[i][2] : i \in { k \in 1..Len(last.actions) : last.actions[k][1] = action } }

\* entry `id` got one successful row per target, the posting API first
TwoSuccessRows(id) ==
    LET rows == AppendedRows(id)
    IN /\ Len(rows) = 2
       /\ rows[1].target = "reddit" /\ rows[2].target = "discord"
       /\ \A k \in 1..2 : rows[k].success = 1 /\ rows[k].post_type = "new"

WasConfiguredPass ==
    /\ last.op = "run"
    /\ ~ last.arg.ctx.dry_run
    /\ last.arg.ctx.post_template /\ last.arg.ctx.discord_template
    /\ last.arg.ctx.fetch_fails = 0

\* the classification of `mod` against the ledger the invocation started from
ClassOf(mod) ==
    _determine_action(last.arg.before, mod, compute_mod_hash(mod),
                      last.arg.ctx.post_new, last.arg.ctx.post_updates,
                      last.arg.ctx.config)

\* C22: in a pass that is not a dry run every fetched item with an id is in
\* the ledger afterwards, as fetched and seen at the instant of the pass,
\* whatever its classification, and an item classified none has no attempt
\* row appended for it.
C22_EveryItemUpsertedNoneNotDelivered ==
    WasConfiguredPass =>
        \A i \in 1..Len(WalkedItems(last.pages)) :
            LET mod == WalkedItems(last.pages)[i]
            IN /\ has_mod(store, mod.mod_id)
               /\ get_mod(store, mod.mod_id).last_seen_at = last.arg.ctx.now
               /\ get_mod_model(store, mod.mod_id) = mod
               /\ ClassOf(mod) = "none" => AppendedRows(mod.mod_id) = << >>

\* a live run on an empty ledger that delivered one entry of a page and only
\* recorded the other, an entry of an author who is not verified
C22_Witness ==
    /\ WasLiveRun
    /\ last.arg.before = EmptyStore
    /\ \E i, j \in 1..Len(WalkedItems(last.pages)) :
          LET mod == WalkedItems(last.pages)[i]
              other == WalkedItems(last.pages)[j]
          IN /\ ~ mod.author_verified
             /\ ClassOf(mod) = "none"
             /\ has_mod(store, mod.mod_id)
             /\ AppendedRows(mod.mod_id) = << >>
             /\ AppendedRows(other.mod_id) # << >>

\* the entries the invocation delivered something for: a remote attempt or a
\* manual output file
DeliveredEntries ==
    { last.sent[k].mod_id : k \in 1..Len(last.sent) }
        \cup { last.arg.written[k] : k \in 1..Len(last.arg.written) }

\* the first n elements of a sequence
FirstN(q, n) == SubSeq(q, 1, Min(n, Len(q)))

\* C23: in a run with max_posts = N at most N entries have a delivery
\* attempted, successfully or not; in a live run they are the first N entries
\* emitted as new, each attempted on every configured target, and no row is
\* appended for any other entry.
C23_AtMostMaxPostsEntries ==
    (last.op = "run" /\ last.arg.ctx.max_posts # NoCap) =>
        /\ Cardinality(DeliveredEntries) <= last.arg.ctx.max_posts
        /\ WasLiveRun =>
              LET first == FirstN(NewEntries(last.actions), last.arg.ctx.max_posts)
              IN /\ AttemptedOn(last.sent, "reddit") = first
                 /\ AttemptedOn(last.sent, "discord")
                       = ( IF last.arg.ctx.discord THEN first ELSE << >> )
                 /\ RowsMatchSent(last.arg.before, store, last.sent)

\* a live run with max_posts = 1 that classified two entries new: the post of
\* the first failed, and nothing was sent for the second
C23_Witness ==
    /\ WasLiveRun
    /\ last.arg.ctx.max_posts = 1
    /\ Len(NewEntries(last.actions)) = 2
    /\ DeliveredEntries = { NewEntries(last.actions)[1] }
    /\ ~ last.sent[1].ok
    /\ AppendedRows(NewEntries(last.actions)[2]) = << >>

\* C24: an entry a run classifies update has nothing delivered for it: no
\* remote attempt, no manual output file, no attempt row appended, and the
\* last_update_posted_at of its record as before the run.
C24_UpdateNeverDelivered ==
    last.op = "run" =>
        \A id \in EntriesOf("update") :
            /\ id \notin DeliveredEntries
            /\ AppendedRows(id) = << >>
            /\ get_mod(store, id).last_update_posted_at
                  = get_mod(last.arg.before, id).last_update_posted_at
            /\ get_mod(store, id).last_posted_at
                  = get_mod(last.arg.before, id).last_posted_at

\* a live run, both targets accepting, that classified an entry update and
\* another new: rows for the new entry only
C24_Witness ==
    /\ WasLiveRunBothUp
    /\ last.arg.ctx.max_posts = NoCap
    /\ EntriesOf("update") # {}
    /\ EntriesOf("new") # {}
    /\ \A id \in EntriesOf("update") : AppendedRows(id) = << >>
    /\ \A id \in EntriesOf("new") : Len(AppendedRows(id)) = 2

\* the invocation was a run with a manual output directory (emit_eligible is
\* set for it), its template files there and its catalog answering
WasManualRun ==
    /\ last.op = "run"
    /\ last.arg.ctx.manual
    /\ last.arg.ctx.post_template /\ last.arg.ctx.discord_template
    /\ last.arg.ctx.fetch_fails = 0

\* how many times the invocation handed entry `id` to the handler as `action`
TimesEmitted(action, id) ==
    Cardinality({ k \in 1..Len(last.actions) : last.actions[k] = << action, id >> })

\* C25: with emit_eligible set, every processed entry that is eligible and is
\* classified none is handed to the handler exactly once, as new, and an entry
\* classified none that is not eligible is never handed; the manual output
\* appends no attempt row and leaves last_posted_at and last_update_posted_at
\* of every record as they were.
C25_EligibleEmittedOnceNoHistory ==
    WasManualRun =>
        /\ \A i \in 1..Len(WalkedItems(last.pages)) :
              LET mod == WalkedItems(last.pages)[i]
              IN ClassOf(mod) = "none" =>
                    /\ TimesEmitted("update", mod.mod_id) = 0
                    /\ TimesEmitted("new", mod.mod_id)
                          = ( IF Eligible(mod, last.arg.ctx.config) THEN 1 ELSE 0 )
        /\ store.posts = last.arg.before.posts
        /\ last.sent = << >>
        /\ \A id \in DOMAIN last.arg.before.mods :
              /\ get_mod(store, id).last_posted_at
                    = get_mod(last.arg.before, id).last_posted_at
              /\ get_mod(store, id).last_update_posted_at
                    = get_mod(last.arg.before, id).last_update_posted_at

\* a manual output on a ledger that has posted an entry: the entry is eligible,
\* classified none, emitted as new and written to a file, and an entry that is
\* not eligible is passed over
C25_Witness ==
    /\ WasManualRun
    /\ ~ last.arg.ctx.dry_run
    /\ last.arg.before.posts # << >>
    /\ \E i, j \in 1..Len(WalkedItems(last.pages)) :
          LET mod == WalkedItems(last.pages)[i]
              other == WalkedItems(last.pages)[j]
          IN /\ ClassOf(mod) = "none"
             /\ has_mod(last.arg.before, mod.mod_id)
             /\ get_mod(last.arg.before, mod.mod_id).last_posted_at # NoneT
             /\ TimesEmitted("new", mod.mod_id) = 1
             /\ mod.mod_id \in DeliveredEntries
             /\ ClassOf(other) = "none"
             /\ TimesEmitted("new", other.mod_id) = 0

\* the invocation was a live run that lacks a setting it requires: the posting
\* credentials, the post template, or the webhook template of a configured
\* webhook
WasMisconfiguredLiveRun ==
    /\ last.op = "run"
    /\ ~ last.arg.ctx.dry_run /\ ~ last.arg.ctx.manual
    /\ \/ ~ last.arg.ctx.credentials
       \/ ~ last.arg.ctx.post_template
       \/ last.arg.ctx.discord /\ ~ last.arg.ctx.discord_template

CredentialsErrorBeforeAnyMutation ==
    (last.op = "run" /\ ~ last.arg.ctx.dry_run /\ ~ last.arg.ctx.manual
       /\ ~ last.arg.ctx.credentials)
        => ( last.arg.raised /\ store = last.arg.before )

\* the invocation was a run whose template files are there and whose catalog
\* answers
WasAnsweredRun ==
    /\ last.op = "run"
    /\ last.arg.ctx.post_template /\ last.arg.ctx.discord_template
    /\ last.arg.ctx.fetch_fails = 0

\* C27: an item without an id is passed over: it is not upserted, not
\* classified and not delivered, and it stops nothing; the walk ends only on
\* a page that is empty or holds an item with an id at or before the cutoff,
\* and every item with an id on a fetched page, after an id-less item too, is
\* recorded by the pass.
C27_MissingIdSkipped ==
    WasAnsweredRun =>
        /\ ~ has_mod(store, MissingId)
        /\ \A k \in 1..Len(last.actions) : last.actions[k][2] # MissingId
        /\ MissingId \notin DeliveredEntries
        /\ \A k \in 1..Len(store.posts) : store.posts[k].mod_id # MissingId
        /\ \A i \in 1..Len(last.pages) :
              i = Len(last.pages) => PageStops(last.pages[i], last.cutoff)
        /\ \A i \in 1..Len(WalkedItems(last.pages)) :
              LET mod == WalkedItems(last.pages)[i]
              IN /\ has_mod(store, mod.mod_id)
                 /\ get_mod(store, mod.mod_id).last_seen_at = last.arg.ctx.now

\* a live run whose first page starts with an id-less item at the cutoff: the
\* item after it on the page was delivered, and the walk went on to a second
\* page
C27_Witness ==
    /\ WasLiveRun
    /\ Len(last.pages) >= 2
    /\ LET mods == fetch_mods(catalog, last.pages[1])
       IN /\ Len(mods) >= 2
          /\ mods[1].mod_id = MissingId
          /\ AtOrBeforeCutoff(mods[1], last.cutoff)
          /\ mods[2].mod_id \in DeliveredEntries
          /\ has_mod(store, mods[2].mod_id)
    /\ ~ has_mod(store, MissingId)

\* C28: when run or retry_failed_posts ends, by completing, by the early
\* return of a run with nothing to post, or by an exception of the client
\* construction, of a catalog request or of a delivery, the ledger connection
\* it opened is closed.
C28_LedgerClosedOnEveryExit ==
    last.op \in { "run", "retry" } => last.arg.handle = "closed"

\* a live run that a failing request for the second page ended, after it had
\* delivered an entry of the first
C28_Witness ==
    /\ last.op = "run"
    /\ last.arg.raised
    /\ last.arg.ctx.fetch_fails = 2
    /\ last.sent # << >>
    /\ last.arg.handle = "closed"

\* the run the invocation would have been with every catalog request answered
Unfailing == run([ last.arg.ctx EXCEPT !.fetch_fails = 0 ], last.arg.before, catalog)

\* the invocation was a run, its credentials and template files there, with a
\* failing catalog request that the walk came to
WasRunWithFailedFetch ==
    /\ last.op = "run"
    /\ last.arg.ctx.credentials \/ last.arg.ctx.dry_run \/ last.arg.ctx.manual
    /\ last.arg.ctx.post_template /\ last.arg.ctx.discord_template
    /\ last.arg.ctx.fetch_fails # 0
    /\ Len(Unfailing.pages) >= last.arg.ctx.fetch_fails

\* C30: when a catalog request of a pass raises, the exception leaves the
\* pass, the pages fetched are those before the failing request and no other,
\* the high-water mark is as before the pass, and the ledger holds what the
\* pass had written for the items of those pages: their upserts and the rows
\* of their delivery attempts.
C30_FetchErrorKeepsCommittedWrites ==
    WasRunWithFailedFetch =>
        /\ last.arg.raised
        /\ last.pages = FirstN(Unfailing.pages, last.arg.ctx.fetch_fails - 1)
        /\ store.meta = last.arg.before.meta
        /\ IsPrefix(last.sent, Unfailing.sent)
        /\ RowsMatchSent(last.arg.before, store, last.sent)
        /\ \A i \in 1..Len(WalkedItems(last.pages)) :
              LET id == WalkedItems(last.pages)[i].mod_id
              IN /\ has_mod(store, id)
                 /\ get_mod(store, id) = get_mod(Unfailing.st, id)
        /\ DOMAIN store.mods
              = DOMAIN last.arg.before.mods
                  \cup { WalkedItems(last.pages)[i].mod_id :
                           i \in 1..Len(WalkedItems(last.pages)) }

\* a live run whose request for the second page raised: the entry of the first
\* page is upserted and has its attempt rows, and the mark, which the run
\* would have written, is not written
C30_Witness ==
    /\ WasRunWithFailedFetch
    /\ ~ last.arg.ctx.dry_run /\ ~ last.arg.ctx.manual
    /\ last.arg.ctx.fetch_fails = 2
    /\ last.arg.raised
    /\ Len(store.posts) > Len(last.arg.before.posts)
    /\ store.meta = last.arg.before.meta
    /\ Unfailing.st.meta # last.arg.before.meta

---------------------------------------------------------------------------
(* The web-mode post submission (reddit_client.py), one request a step     *)

max_retries == 3
retry_delay == 2

\* what a CreatePost request can come to: a created post; an answer without
\* errors that did not create the post; an answer with errors, among them the
\* "Upstream Service error" signature or not; a RequestException of the
\* request (a timeout, an HTTP error status raised by raise_for_status)
Answers == { "created", "not_created", "upstream_error", "graphql_error",
             "timeout", "http_403", "http_503" }

RequestExceptions == { "timeout", "http_403", "http_503" }

\* _submit_post_web at `for attempt in range(max_retries)`, no request made yet
InitSubmit ==
    /\ store = EmptyStore
    /\ catalog = <<>>
    /\ clock = StartT
    /\ last = [ NoOp EXCEPT !.op = "submit_post_web",
                  !.arg = [ requests |-> <<>>, delays |-> <<>>, outcome |-> "pending" ] ]

\* one turn of the loop: the request and what the code does with its answer;
\* the turn after a `break` reads the answer and returns or raises
SubmitRequest(answer) ==
    /\ last.op = "submit_post_web"
    /\ last.arg.outcome = "pending"
    /\ Len(last.arg.requests) < max_retries
    /\ LET attempt == Len(last.arg.requests)
           again == attempt < max_retries - 1
           retried == \/ answer = "upstream_error" /\ again
                      \/ answer \in RequestExceptions /\ again
           delay == retry_delay * (attempt + 1)
       IN /\ last' = [ last EXCEPT
                         !.arg.requests = Append(@, answer),
                         !.arg.delays = IF retried THEN Append(@, delay) ELSE @,
                         !.arg.outcome = IF retried THEN "pending"
                                         ELSE IF answer = "created" THEN "result"
                                         ELSE "error" ]
          /\ clock' = IF retried THEN clock + delay ELSE clock
    /\ UNCHANGED << store, catalog >>

NextSubmit == \E answer \in Answers : SubmitRequest(answer)

SpecSubmit == InitSubmit /\ [][NextSubmit]_vars

\* the failures that count as transient: the upstream-error signature of an
\* answer, a network timeout, a 5xx status; an authorization failure (403) is
\* a permanent error
TransientAnswers == { "upstream_error", "timeout", "http_503" }

\* C29: a submission makes at most max_retries requests and then ends with a
\* result or an error; a request is followed by another only when it failed
\* with a recognized transient error, after a delay that grows linearly with
\* the number of the attempt; any other failure ends the submission without a
\* retry.
C29_RetriesOnlyOnTransientSignature ==
    last.op = "submit_post_web" =>
        LET requests == last.arg.requests
        IN /\ Len(requests) <= max_retries
           /\ Len(requests) = max_retries => last.arg.outcome # "pending"
           /\ \A i \in 1..(Len(requests) - 1) :
                 /\ requests[i] \in TransientAnswers
                 /\ last.arg.delays[i] = retry_delay * i

\* the part of C29 that does not depend on what is retried
SubmitBoundedLinearBackoff ==
    last.op = "submit_post_web" =>
        LET requests == last.arg.requests
        IN /\ Len(requests) <= max_retries
           /\ Len(requests) = max_retries => last.arg.outcome # "pending"
           /\ \A i \in 1..(Len(requests) - 1) :
                 /\ requests[i] \in { "upstream_error" } \cup RequestExceptions
                 /\ last.arg.delays[i] = retry_delay * i
           /\ last.arg.outcome = "result"
                 => requests[Len(requests)] = "created"
           /\ last.arg.outcome = "pending"
                 => Len(last.arg.delays) = Len(requests)

---------------------------------------------------------------------------
(* export-db and import-db, after one invocation of run or retry           *)

\* main.py `export-db`: the document of the ledger; `round` counts the imports
\* made before it, `first` is the document of the export before the import
ExportDb ==
    /\ last.op \in { "init", "run", "retry", "import-db" }
    /\ last' = [ NoOp EXCEPT
                   !.op = "export-db",
                   !.arg = IF last.op = "import-db"
                           THEN [ document |-> export_json(store), round |-> 1,
                                  first |-> last.arg.document,
                                  source |-> last.arg.source ]
                           ELSE [ document |-> export_json(store), round |-> 0,
                                  first |-> export_json(store), source |-> store ] ]
    /\ clock' = clock + 1
    /\ UNCHANGED << store, catalog >>

\* main.py `import-db` with a database path no file is at: SQLiteStore creates
\* the empty tables, import_json fills them from the exported document
ImportDb ==
    /\ last.op = "export-db" /\ last.arg.round = 0
    /\ \E r \in { import_json(EmptyStore, last.arg.document) } :
          /\ store' = r.st
          /\ last' = [ NoOp EXCEPT
                         !.op = "import-db",
                         !.arg = [ document |-> last.arg.document, round |-> 1,
                                   first |-> last.arg.document,
                                   source |-> store, raised |-> r.raised ] ]
    /\ clock' = clock + 1
    /\ UNCHANGED catalog

NextExport ==
    \/ NextRun
    \/ ExportDb
    \/ ImportDb

SpecExport == InitRun /\ [][NextExport]_vars

\* the rows of the three tables as sets, every declared column of a row
RowSets(st) ==
    [ mods |-> { SelectedColumns(st.mods[k]) : k \in DOMAIN st.mods },
      posts |-> SeqToSet(st.posts),
      meta |-> st.meta ]

\* C31: importing the export of a ledger into a fresh store raises nothing and
\* gives the same sets of rows in mods, posts and meta; the export of the
\* imported store is the document that was imported.
C31_ExportImportRoundTrip ==
    /\ last.op = "import-db"
          => ~ last.arg.raised /\ RowSets(store) = RowSets(last.arg.source)
    /\ (last.op = "export-db" /\ last.arg.round = 1)
          => last.arg.document = last.arg.first

\* a ledger with two entries, the one of the larger id stored first, attempt
\* rows and a high-water mark was exported, imported and exported again
C31_Witness ==
    /\ last.op = "export-db" /\ last.arg.round = 1
    /\ Len(last.arg.first.mods) = 2
    /\ last.arg.first.mods[1].mod_id > last.arg.first.mods[2].mod_id
    /\ Len(last.arg.first.posts) >= 2
    /\ Len(last.arg.first.meta) = 1
    /\ store # EmptyStore

\* the page a pass starts at (max(config.page, 1)) and the last page of the
\* catalog that holds an item (0 for the empty catalog)
StartPage == IF last.arg.ctx.config.page >= 1 THEN last.arg.ctx.config.page ELSE 1
LastPage == (Len(catalog) + PageSize - 1) \div PageSize

\* the pass of the run began and the first page it asked for came back empty
WasRunOnEmptyFirstPage ==
    /\ last.op = "run"
    /\ last.pages # <<>>
    /\ fetch_mods(catalog, last.pages[1]) = <<>>

\* C32: a sync pass ends: it asks for consecutive pages from its start page,
\* for none after an empty one, so for no more than one page past the last page
\* of the catalog; a pass whose first page is empty emits no action, has seen
\* zero items, raises nothing and leaves the ledger, the high-water mark
\* included, as it found it.
C32_PassEndsEmptyFirstPageWritesNothing ==
    /\ last.op = "run" =>
          /\ \A i \in 1..Len(last.pages) : last.pages[i] = StartPage + i - 1
          /\ \A i \in 1..(Len(last.pages) - 1) : fetch_mods(catalog, last.pages[i]) # <<>>
          /\ \/ Len(last.pages) <= LastPage - StartPage + 2
             \/ Len(last.pages) = 1
    /\ WasRunOnEmptyFirstPage =>
          /\ last.actions = <<>>
          /\ last.sent = <<>>
          /\ last.arg.total_seen = 0
          /\ ~ last.arg.raised
          /\ store = last.arg.before

\* a live run from page 2 of a two-item catalog, on a ledger that holds
\* entries, attempt rows and a high-water mark
C32_Witness ==
    /\ WasRunOnEmptyFirstPage
    /\ ~ last.dry /\ ~ last.arg.ctx.manual
    /\ last.pages = << 2 >>
    /\ Len(catalog) = 2
    /\ DOMAIN store.mods # {}
    /\ store.posts # <<>>
    /\ store.meta # NoneT

---------------------------------------------------------------------------
(* Live runs and retry passes over one ledger                              *)

\* a 'new' attempt row of the entry on the target with success = 0
HasFailedNew(st, mod_id, target) ==
    \E i \in 1..Len(st.posts) :
        /\ st.posts[i].mod_id = mod_id
        /\ st.posts[i].post_type = "new"
        /\ st.posts[i].target = target
        /\ st.posts[i].success = 0

\* the new-post delivery of an entry failed on the target and has not succeeded
Undelivered(st, target) ==
    { id \in DOMAIN st.mods :
        HasFailedNew(st, id, target) /\ ~ HasSuccess(st, id, "new", target) }

\* passes start while the clock and the attempt rows are below their bounds;
\* a retry pass that the target accepts still starts for as many instants
\* past MaxClock as there are pairs of an entry and a target
OpenRetryStarts == clock < MaxClock + NumMods * Cardinality(Targets)

\* a run, or a retry with any settings, starts on the instants before the last
\* one at which a pass of the model starts
EarlyPassStarts == PassStarts /\ clock < MaxClock - 1

\* main.py `run`, a live run with credentials and templates
LiveRunPass ==
    \E page \in Pages, cap \in Caps, discord \in BOOLEAN,
       reddit_up \in BOOLEAN, discord_up \in BOOLEAN :
        /\ EarlyPassStarts
        /\ (~ discord => ~ discord_up)
        /\ \E r \in { run(Ctx(page, TRUE, TRUE, FALSE, cap, TRUE, discord,
                              reddit_up, discord_up, TRUE), store, catalog) } :
              /\ store' = r.st
              /\ last' = [ NoOp EXCEPT !.op = "run" ]
        /\ clock' = clock + 1
        /\ UNCHANGED catalog

\* main.py `retry` with any settings
RetryPass ==
    \E dry_run \in BOOLEAN, reddit \in BOOLEAN, discord \in BOOLEAN,
       reddit_up \in BOOLEAN, discord_up \in BOOLEAN :
        /\ EarlyPassStarts
        /\ (dry_run \/ ~ reddit) => ~ reddit_up
        /\ (dry_run \/ ~ discord) => ~ discord_up
        /\ \E r \in { retry_failed_posts(Ctx(1, FALSE, FALSE, dry_run, NoCap, reddit,
                                               discord, reddit_up, discord_up, TRUE),
                                           store) } :
              /\ store' = r.st
              /\ last' = [ NoOp EXCEPT !.op = "retry" ]
        /\ clock' = clock + 1
        /\ UNCHANGED catalog

\* main.py `retry` with `target` configured, while the target accepts what it
\* is sent and a delivery to it is outstanding; the other target is configured
\* or not, and accepts or not
AcceptedRetryPass(target) ==
    \E other \in BOOLEAN, other_up \in BOOLEAN :
        /\ OpenRetryStarts
        /\ Undelivered(store, target) # {}
        /\ (~ other => ~ other_up)
        /\ \E r \in { retry_failed_posts(
                        Ctx(1, FALSE, FALSE, FALSE, NoCap,
                            target = "reddit" \/ other, target = "discord" \/ other,
                            target = "reddit" \/ other_up, target = "discord" \/ other_up,
                            TRUE), store) } :
              /\ store' = r.st
              /\ last' = [ NoOp EXCEPT !.op = "retry" ]
        /\ clock' = clock + 1
        /\ UNCHANGED catalog

NextRetry ==
    \/ LiveRunPass
    \/ RetryPass
    \/ \E target \in Targets : AcceptedRetryPass(target)

\* retry passes with a target configured keep being run: a pass that the target
\* accepts is not put off for ever while a delivery to it is outstanding
SpecRetry ==
    /\ InitRun
    /\ [][NextRetry]_vars
    /\ \A target \in Targets : WF_vars(AcceptedRetryPass(target))

OutstandingRetryCanStart ==
    \A target \in Targets : Undelivered(store, target) # {} => OpenRetryStarts

---------------------------------------------------------------------------
(* Passes of every mode over one ledger, with catalogs that return an      *)
(* entry twice in one walk                                                  *)

\* an entry returned twice on one page, and one returned on page 1 and again
\* on page 2 (the catalog moved between the two requests)
PassCatalogs ==
    { << RecentMod, OldMod >>, << RecentMod, RecentMod >>,
      << RecentMod, UnverifiedMod, RecentMod >>, << RecentMod, NoIdMod, EdgeMod >> }

\* how often each entry has been classified as new since the ledger was created
NoNews == [ id \in ModIds |-> 0 ]

TimesNew(classified, id) ==
    Cardinality({ i \in 1..Len(classified) : classified[i] = << "new", id >> })

Counted(classified) ==
    [ id \in ModIds |-> last.arg.news[id] + TimesNew(classified, id) ]

InitPasses ==
    /\ store = EmptyStore
    /\ catalog \in PassCatalogs
    /\ clock = StartT
    /\ last = [ NoOp EXCEPT !.arg = [ news |-> NoNews ] ]

\* the world: the author of an item republishes it
RepublishItem ==
    \E i \in 1..Len(catalog) :
        /\ clock < MaxClock
        /\ catalog[i].mod_id # MissingId
        /\ catalog' = [ k \in 1..Len(catalog) |->
                          IF catalog[k].mod_id = catalog[i].mod_id
                            THEN [ catalog[k] EXCEPT !.published_at = clock,
                                                    !.updated_at = clock,
                                                    !.content = clock ]
                          ELSE catalog[k] ]
        /\ last' = [ last EXCEPT !.op = "republish", !.actions = <<>> ]
        /\ clock' = clock + 1
        /\ UNCHANGED store

\* main.py `run` in one of its modes, posting of new entries on or off
RunPass ==
    \E mode \in Modes, page \in Pages, post_new \in BOOLEAN, discord \in BOOLEAN :
        /\ clock < MaxClock
        /\ \E r \in { run([ ModeCtx(mode, page, discord) EXCEPT !.post_new = post_new ],
                          store, catalog) } :
              /\ store' = r.st
              /\ last' = [ NoOp EXCEPT !.op = "run", !.dry = (mode = "dry"),
                                       !.actions = r.classified,
                                       !.arg = [ news |-> Counted(r.classified) ] ]
        /\ clock' = clock + 1
        /\ UNCHANGED catalog

\* main.py `fetch`
FetchPass ==
    \E page \in Pages :
        /\ clock < MaxClock
        /\ \E r \in { sync_mods(Ctx(page, FALSE, FALSE, FALSE, NoCap, FALSE, FALSE,
                                      FALSE, FALSE, FALSE), store, catalog) } :
              /\ store' = r.st
              /\ last' = [ NoOp EXCEPT !.op = "fetch", !.actions = r.classified,
                                       !.arg = [ news |-> Counted(r.classified) ] ]
        /\ clock' = clock + 1
        /\ UNCHANGED catalog

NextPasses ==
    \/ RepublishItem
    \/ RunPass
    \/ FetchPass

SpecPasses == InitPasses /\ [][NextPasses]_vars

\* C34: over the passes made on one ledger each entry is classified as new at
\* most once, and an entry that was classified as new has a record; a pass
\* does not classify an entry as new again that it meets twice.
C34_ClassifiedNewAtMostOnce ==
    \A id \in ModIds :
        /\ last.arg.news[id] <= 1
        /\ last.arg.news[id] = 1 => has_mod(store, id)
        /\ TimesNew(last.actions, id) <= 1

\* a pass met entry 2 twice, republished, on a ledger where an earlier pass had
\* classified it as new: it classified it twice and neither time as new
C34_Witness ==
    /\ last.op = "run"
    /\ last.arg.news[2] = 1
    /\ TimesNew(last.actions, 2) = 0
    /\ Cardinality({ i \in 1..Len(last.actions) : last.actions[i][2] = 2 }) = 2
    /\ \E i \in 1..Len(last.actions) : last.actions[i] = << "update", 2 >>

---------------------------------------------------------------------------
(* A run after the run of SpecRun                                          *)

\* the entries the live run classified as new and handed to the handler, which
\* returned at once because the deliveries of the run had brought post_count
\* to max_posts
SkippedByCap ==
    { id \in ModIds :
        /\ WasLiveRun
        /\ last.arg.ctx.max_posts >= 1
        /\ last.arg.post_count >= last.arg.ctx.max_posts
        /\ << "new", id >> \in SeqToSet(last.actions)
        /\ \A k \in 1..Len(last.sent) : last.sent[k].mod_id # id }

\* a live run after it, from page `page`, without a cap, both targets
\* configured and accepting
LaterRun(page) ==
    run(Ctx(page, TRUE, TRUE, FALSE, NoCap, TRUE, TRUE, TRUE, TRUE, TRUE), store, catalog)

CappedEntryNeverNewAgain ==
    \A id \in SkippedByCap :
        /\ has_mod(store, id)
        /\ \A page \in Pages :
              /\ << "new", id >> \notin SeqToSet(LaterRun(page).classified)
              /\ \A k \in 1..Len(LaterRun(page).sent) :
                    LaterRun(page).sent[k].mod_id # id

\* the messages of the retry pass that the webhook accepted for a pair
WebhookDeliveries(id, post_type) ==
    { k \in 1..Len(last.sent) :
        /\ last.sent[k].mod_id = id
        /\ last.sent[k].post_type = post_type
        /\ last.sent[k].target = "discord"
        /\ last.sent[k].ok }

\* C36: a retry pass delivers each (entry, action) pair to the webhook at most
\* once.
C36_WebhookOncePerPairPerRetry ==
    last.op = "retry" =>
        \A id \in ModIds, post_type \in { "new", "update" } :
            Cardinality(WebhookDeliveries(id, post_type)) <= 1

\* what the code does instead: a pair that is on both lists of the pass, the
\* failed webhook deliveries and the missing ones, is sent once for each list
WebhookOncePerListPerRetry ==
    last.op = "retry" =>
        \A id \in ModIds, post_type \in { "new", "update" } :
            Cardinality(WebhookDeliveries(id, post_type))
              <= Cardinality({ i \in 1..Len(get_failed_posts(last.arg.before, "discord")) :
                                 get_failed_posts(last.arg.before, "discord")[i]
                                   = << id, post_type >> })
                 + Cardinality({ i \in 1..Len(get_missing_discord_posts(last.arg.before)) :
                                   get_missing_discord_posts(last.arg.before)[i]
                                     = << id, post_type >> })

---------------------------------------------------------------------------
(* Attempt rows and the records they refer to                              *)

\* the invocation attempted a delivery of an entry the ledger had no record
\* of when the invocation started
DeliveredUnrecordedEntry ==
    \E k \in 1..Len(last.sent) :
        last.sent[k].mod_id \notin DOMAIN last.arg.before.mods

\* the foreign key of posts on mods(mod_id)
RowsReferToRecords ==
    \A i \in 1..Len(store.posts) : store.posts[i].mod_id \in DOMAIN store.mods

\* C37: every attempt row refers to a stored entry, in every state; and a run
\* has recorded an entry by the time the handler attempts its delivery, so
\* that each attempt of the run left its row, which refers to that record.
C37_AttemptRowsReferToRecords ==
    /\ RowsReferToRecords
    /\ last.op = "run" =>
          /\ RowsMatchSent(last.arg.before, store, last.sent)
          /\ \A k \in 1..Len(last.sent) : last.sent[k].mod_id \in DOMAIN store.mods

C37_Witness ==
    /\ WasLiveRun
    /\ DeliveredUnrecordedEntry
    /\ \E i \in Len(last.arg.before.posts) + 1 .. Len(store.posts) :
          /\ store.posts[i].mod_id \notin DOMAIN last.arg.before.mods
          /\ store.posts[i].mod_id \in DOMAIN store.mods

---------------------------------------------------------------------------
(* What the ledger calls leave alone                                       *)

\* the step is upsert_mod for an entry that has a record
UpsertOfRecorded ==
    /\ last'.op = "upsert_mod"
    /\ last'.arg.mod.mod_id \in DOMAIN store.mods

\* C38: upserting an entry that already has a record leaves the record's
\* last_posted_at and last_update_posted_at, every attempt row and the
\* metadata value as they were.
C38_UpsertKeepsMarkersRowsMeta ==
    [][ UpsertOfRecorded =>
          LET id == last'.arg.mod.mod_id
          IN /\ store'.mods[id].last_posted_at = store.mods[id].last_posted_at
             /\ store'.mods[id].last_update_posted_at = store.mods[id].last_update_posted_at
             /\ store'.posts = store.posts
             /\ store'.meta = store.meta ]_vars

\* an upsert of a recorded entry that has been delivered: the marker is set,
\* there is an attempt row, and the mirrored columns did change
C38_Witness ==
    /\ last.op = "upsert_mod"
    /\ LET id == last.arg.mod.mod_id
       IN /\ id \in DOMAIN store.mods
          /\ store.mods[id].first_seen_at < last.arg.at
          /\ store.mods[id].last_seen_at = last.arg.at
          /\ store.mods[id].last_posted_at # NoneT
          /\ \E i \in 1..Len(store.posts) : store.posts[i].mod_id = id

\* the ledger has an attempt row with the key of the call
HasAttemptKey(st, arg) ==
    \E i \in 1..Len(st.posts) :
        /\ st.posts[i].mod_id = arg.mod_id
        /\ st.posts[i].post_type = arg.post_type
        /\ st.posts[i].post_id = arg.post_id

\* the step is a mark_posted call the ledger rejects: the action kind is not
\* one of the two, the key is taken, or the entry has no record
RejectedMarkPosted ==
    /\ last'.op = "mark_posted"
    /\ \/ last'.arg.post_type \notin { "new", "update" }
       \/ HasAttemptKey(store, last'.arg)
       \/ last'.arg.mod_id \notin DOMAIN store.mods

\* C39: a rejected mark_posted call appends no attempt row and leaves
\* last_posted_at and last_update_posted_at of every record as they were.
C39_RejectedMarkPostedChangesNothing ==
    [][ RejectedMarkPosted =>
          /\ last'.arg.raised
          /\ store'.posts = store.posts
          /\ DOMAIN store'.mods = DOMAIN store.mods
          /\ \A id \in DOMAIN store.mods :
                /\ store'.mods[id].last_posted_at = store.mods[id].last_posted_at
                /\ store'.mods[id].last_update_posted_at
                     = store.mods[id].last_update_posted_at ]_vars

\* a call with a taken key for a recorded entry, later than the attempt that
\* took the key: the marker still is the instant of that attempt
C39_Witness ==
    /\ last.op = "mark_posted"
    /\ last.arg.raised
    /\ last.arg.post_type = "new"
    /\ HasAttemptKey(store, last.arg)
    /\ last.arg.mod_id \in DOMAIN store.mods
    /\ store.mods[last.arg.mod_id].last_posted_at # NoneT
    /\ store.mods[last.arg.mod_id].last_posted_at < last.arg.posted_at
    /\ Len(store.posts) = 1

====
